---- MODULE Spec2Model ----
(***************************************************************************)
(* Capital-flow ledger of portfolio-operations.                            *)
(*                                                                         *)
(* Money is held as integers: USD amounts in cents (USD_Q = 0.01), units   *)
(* and NAV per unit in 1e-8 (UNITS_Q = 0.00000001).  Amounts handed to     *)
(* apply_capital_flow arrive in thousandths of a dollar, so that the       *)
(* rounding of _q_usd is visible.  Dates are day numbers.                  *)
(*                                                                         *)
(* Two specifications drive the same code model:                           *)
(*   Spec        one caller, apply_capital_flow runs to completion between *)
(*               other operations, inputs drawn from the wide sets;        *)
(*   SpecOverlap two callers, apply_capital_flow advances one database     *)
(*               statement at a time, inputs drawn from the narrow sets.   *)
(***************************************************************************)
EXTENDS Integers, FiniteSets, Sequences, TLC

\* ------------------------------------------------------------------ bounds
MaxFlows == 2
MaxSnapshots == 2

\* ------------------------------------------------------- program constants
UNITS_SCALE == 100000000
UNITS_DIGITS == 8
USD_DIGITS == 2

\* ---------------------------------------------------------------- domains
Procs == {"p1", "p2"}
Clients == {"c1"}
Funds == {"f1", "f2"}
Dates == {1, 2}
Pairs == Clients \X Funds

TYPE_SUBSCRIPTION == "SUBSCRIPTION"
TYPE_REDEMPTION == "REDEMPTION"

\* Inputs of Spec.  Well-formed calls on fund f1 vary in every argument;
\* each kind of bad argument is tried on a few of them; one plain
\* subscription reaches fund f2.
ValidCalls ==
    [client : Clients, fund : {"f1"},
     flow_type : {TYPE_SUBSCRIPTION, TYPE_REDEMPTION},
     flow_date : Dates, amount : {1000, 2000}, external_ref : {"R1", "R2"},
     pricing_policy : {"EXACT", "PREV"}, allow_over_redeem : {FALSE}]

OverRedeemCalls ==
    [client : Clients, fund : {"f1"}, flow_type : {TYPE_REDEMPTION},
     flow_date : {2}, amount : {2000}, external_ref : {"R1", "R2"},
     pricing_policy : {"PREV"}, allow_over_redeem : {TRUE}]

BadValueCalls ==
    [client : Clients, fund : {"f1"},
     flow_type : {TYPE_SUBSCRIPTION, TYPE_REDEMPTION},
     flow_date : {1}, amount : {-1000, -4, 0, 4, 5, 1000},
     external_ref : {"", "R1"},
     pricing_policy : {"PREV"}, allow_over_redeem : {FALSE}]

BadChoiceCalls ==
    [client : Clients, fund : {"f1"},
     flow_type : {TYPE_SUBSCRIPTION, "TRANSFER"},
     flow_date : {2}, amount : {1000}, external_ref : {"R1", "R2"},
     pricing_policy : {"PREV", "NEXT"}, allow_over_redeem : {FALSE}]

OtherFundCalls ==
    [client : Clients, fund : {"f2"}, flow_type : {TYPE_SUBSCRIPTION},
     flow_date : {2}, amount : {1000}, external_ref : {"R1"},
     pricing_policy : {"PREV"}, allow_over_redeem : {FALSE}]

CallInputs ==
    ValidCalls \cup OverRedeemCalls \cup BadValueCalls \cup BadChoiceCalls
    \cup OtherFundCalls

\* Inputs of SpecOverlap: three keys on one pair, never allow_over_redeem,
\* and one plain subscription on the other pair.
OvCallInputs ==
    [client : Clients, fund : {"f1"},
     flow_type : {TYPE_SUBSCRIPTION, TYPE_REDEMPTION},
     flow_date : {1}, amount : {1000}, external_ref : {"R1", "R2", "R3"},
     pricing_policy : {"PREV"}, allow_over_redeem : {FALSE}]
    \cup
    [client : Clients, fund : {"f2"}, flow_type : {TYPE_SUBSCRIPTION},
     flow_date : {1}, amount : {4, 1000}, external_ref : {"", "R1"},
     pricing_policy : {"PREV", "NEXT"}, allow_over_redeem : {FALSE}]

NavInputs == {0, 50000000, UNITS_SCALE}
OvNavDates == {1}
OvNavInputs == {UNITS_SCALE}

VARIABLES
    flows,        \* committed CapitalFlow rows
    positions,    \* committed ClientCapitalAccount rows, keyed <<client, fund>>
    navs,         \* committed NAVSnapshot rows, keyed <<fund, date>>
    locks,        \* row lock of each (client, fund) position: holder or "none"
    pc,           \* position of each caller inside apply_capital_flow
    call,         \* arguments of the call each caller is running or has just run
    loc,          \* local variables of the call each caller is running
    result,       \* what the call of each caller returned or raised
    months,       \* committed MonthlySnapshot rows, keyed <<fund, as_of_month>>
    last,         \* the fund operation that ran last: arguments and outcome
    expenses,     \* committed FundExpense rows, keyed <<fund, type, as_of_date>>
    adm,          \* CapitalFlowAdmin.save_model of each caller: the form and
                  \* whether its transaction holds an uncommitted inception snapshot
    navrun,       \* the run of compute_and_save_navsnapshot in progress: its
                  \* position, arguments and local total_units
    reports       \* committed MonthlyReportArtifact rows, keyed by their snapshot

vars ==
    <<flows, positions, navs, locks, pc, call, loc, result, months, last,
      expenses, adm, navrun, reports>>

\* What the operations on the ledger, the snapshots and the rollup leave
\* alone.
feeState == <<expenses>>
adminState == <<adm>>
navState == <<navrun>>
mailState == <<reports>>
otherState == <<feeState, adminState, navState, mailState>>

\* What the capital-flow callers of Spec and SpecOverlap leave alone.
fundState == <<months, last, otherState>>

\* ------------------------------------------------------------ null values
NoFlow ==
    [client |-> "", fund |-> "", flow_type |-> "", amount |-> 0,
     nav_at_flow |-> 0, units_delta |-> 0, flow_date |-> 0, external_ref |-> ""]
NoNav == [err |-> "none", date |-> 0, nav_per_unit |-> 0]
NoAcct == [units |-> 0, nav_per_unit |-> 0, last_valuation_date |-> 0]
NoCall ==
    [client |-> "", fund |-> "", flow_type |-> "", flow_date |-> 0, amount |-> 0,
     external_ref |-> "", pricing_policy |-> "", allow_over_redeem |-> FALSE]
NoLoc ==
    [nav |-> NoNav, units_delta |-> 0, acct |-> NoAcct, created |-> FALSE,
     flow |-> NoFlow]
NoResult == [kind |-> "none", flow |-> NoFlow]
NoOp == [op |-> "none"]
NoNavRun ==
    [pc |-> "idle", fund |-> "", as_of |-> 0,
     total_units |-> [neg |-> FALSE, mag |-> <<>>], kind |-> "none"]
NoObj == [client |-> "", fund |-> "", flow_type |-> "", flow_date |-> 0, amount |-> 0]
NoAdm == [obj |-> NoObj, nav |-> FALSE]

\* --------------------------------------------------------- decimal helpers
Abs(x) == IF x < 0 THEN -x ELSE x
Sign(x) == IF x < 0 THEN -1 ELSE 1

\* Decimal.quantize(..., ROUND_HALF_UP) dropping one decimal digit:
\* ties go away from zero.
QuantizeHalfUp10(x) == Sign(x) * ((Abs(x) + 5) \div 10)

\* _q_usd on an amount given in thousandths of a dollar; result in cents.
q_usd(x) == QuantizeHalfUp10(x)

\* Long division num / den carried to `digits` further decimal digits:
\* <<quotient, remainder>> with quotient = floor(num * 10^digits / den).
RECURSIVE LongDiv(_, _, _, _)
LongDiv(q, r, den, digits) ==
    IF digits = 0 THEN <<q, r>>
    ELSE LongDiv(q * 10 + ((r * 10) \div den), (r * 10) % den, den, digits - 1)

\* _q_units(amount / nav_per_unit): amount in cents, nav_per_unit in 1e-8,
\* result in 1e-8 units, rounded half up.  amount / nav_per_unit =
\* cents * 10^(8-2) / nav, so 8 + 6 further digits are carried.
UnitsFor(amount, nav_per_unit) ==
    LET qr == LongDiv(amount \div nav_per_unit, amount % nav_per_unit,
                      nav_per_unit, UNITS_DIGITS + UNITS_DIGITS - USD_DIGITS)
    IN  IF 2 * qr[2] >= nav_per_unit THEN qr[1] + 1 ELSE qr[1]

\* _q_units on a value already held in 1e-8 units.
q_units(x) == x

RECURSIVE SumUnits(_)
SumUnits(S) ==
    IF S = {} THEN 0
    ELSE LET r == CHOOSE x \in S : TRUE IN r.units_delta + SumUnits(S \ {r})

\* ------------------------------------------- decimals of any magnitude
\* Python's Decimal is exact at the magnitudes the program stores
\* (max_digits 18 or 20, below the 28 significant digits of the default
\* context).  Where a value does not fit a machine integer the model holds
\* its magnitude as a sequence of decimal digits, most significant first and
\* without leading zeros (<<>> is zero), and a decimal as a sign and a
\* magnitude at the scale of its field (USD: cents, units and NAV: 1e-8,
\* returns: 1e-6).
RECURSIVE NatStrip(_)
NatStrip(s) == IF s # <<>> /\ Head(s) = 0 THEN NatStrip(Tail(s)) ELSE s

RECURSIVE NatOf(_)
NatOf(n) == IF n = 0 THEN <<>> ELSE Append(NatOf(n \div 10), n % 10)

NatFront(s) == IF s = <<>> THEN <<>> ELSE SubSeq(s, 1, Len(s) - 1)
NatLast(s) == IF s = <<>> THEN 0 ELSE s[Len(s)]
NatShift(a, k) == IF a = <<>> THEN <<>> ELSE a \o [i \in 1..k |-> 0]

RECURSIVE NatLexCmp(_, _)
NatLexCmp(a, b) ==
    IF a = <<>> THEN 0
    ELSE IF Head(a) < Head(b) THEN -1
    ELSE IF Head(a) > Head(b) THEN 1
    ELSE NatLexCmp(Tail(a), Tail(b))

NatCmp(a, b) ==
    IF Len(a) < Len(b) THEN -1
    ELSE IF Len(a) > Len(b) THEN 1
    ELSE NatLexCmp(a, b)

RECURSIVE NatAddC(_, _, _)
NatAddC(a, b, c) ==
    IF a = <<>> /\ b = <<>> THEN NatOf(c)
    ELSE LET s == NatLast(a) + NatLast(b) + c
         IN  Append(NatAddC(NatFront(a), NatFront(b), s \div 10), s % 10)

NatAdd(a, b) == NatAddC(a, b, 0)

RECURSIVE NatSubB(_, _, _)
NatSubB(a, b, c) ==
    IF a = <<>> THEN <<>>
    ELSE LET s == NatLast(a) - NatLast(b) - c
         IN  Append(NatSubB(NatFront(a), NatFront(b), IF s < 0 THEN 1 ELSE 0),
                    IF s < 0 THEN s + 10 ELSE s)

\* a - b for a >= b.
NatSub(a, b) == NatStrip(NatSubB(a, b, 0))

RECURSIVE NatMulDigit(_, _, _)
NatMulDigit(a, d, c) ==
    IF a = <<>> THEN NatOf(c)
    ELSE LET s == NatLast(a) * d + c
         IN  Append(NatMulDigit(NatFront(a), d, s \div 10), s % 10)

RECURSIVE NatMul(_, _)
NatMul(a, b) ==
    IF b = <<>> THEN <<>>
    ELSE IF NatLast(b) = 0 THEN NatShift(NatMul(a, NatFront(b)), 1)
    ELSE NatAdd(NatShift(NatMul(a, NatFront(b)), 1),
                NatStrip(NatMulDigit(a, NatLast(b), 0)))

\* Long division: <<n + floor(r / b), r mod b>> by repeated subtraction.
RECURSIVE NatCount(_, _, _)
NatCount(r, b, n) ==
    IF NatCmp(r, b) < 0 THEN <<n, r>> ELSE NatCount(NatSub(r, b), b, n + 1)

RECURSIVE NatDivStep(_, _, _, _)
NatDivStep(a, b, q, r) ==
    IF a = <<>> THEN <<NatStrip(q), r>>
    ELSE LET c == NatCount(NatStrip(Append(r, Head(a))), b, 0)
         IN  NatDivStep(Tail(a), b, Append(q, c[1]), c[2])

\* The same with a divisor small enough for machine arithmetic on the
\* remainder.
RECURSIVE NatToInt(_)
NatToInt(s) == IF s = <<>> THEN 0 ELSE NatToInt(NatFront(s)) * 10 + NatLast(s)

RECURSIVE NatDivStepInt(_, _, _, _)
NatDivStepInt(a, b, q, r) ==
    IF a = <<>> THEN <<NatStrip(q), NatOf(r)>>
    ELSE NatDivStepInt(Tail(a), b, Append(q, (r * 10 + Head(a)) \div b),
                       (r * 10 + Head(a)) % b)

\* <<floor(a / b), a mod b>> for b > 0.  Zeros that end both a and b cancel.
RECURSIVE NatDivMod(_, _)
NatDivMod(a, b) ==
    IF a # <<>> /\ NatLast(a) = 0 /\ NatLast(b) = 0
    THEN LET qr == NatDivMod(NatFront(a), NatFront(b))
         IN  <<qr[1], NatShift(qr[2], 1)>>
    ELSE IF Len(b) <= 8 THEN NatDivStepInt(a, NatToInt(b), <<>>, 0)
    ELSE NatDivStep(a, b, <<>>, <<>>)

\* Roundings of a quotient <<q, r>> by den.
NatHalfUp(qr, den) ==
    IF NatCmp(NatAdd(qr[2], qr[2]), den) >= 0 THEN NatAdd(qr[1], <<1>>) ELSE qr[1]

NatHalfEven(qr, den) ==
    LET c == NatCmp(NatAdd(qr[2], qr[2]), den)
    IN  IF c > 0 \/ (c = 0 /\ NatLast(qr[1]) % 2 = 1)
        THEN NatAdd(qr[1], <<1>>) ELSE qr[1]

\* Signed decimals; zero carries no sign.
Dec(neg, mag) == [neg |-> neg /\ mag # <<>>, mag |-> mag]
DecZero == Dec(FALSE, <<>>)
\* None in a nullable decimal field.
DecNull == [null |-> TRUE]
IsNull(x) == DOMAIN x = {"null"}
DecOfInt(n) == Dec(n < 0, NatOf(Abs(n)))
\* whole.frac with `digits` fractional digits, e.g. DecAt(33, 33333333, 8).
DecAt(whole, frac, digits) == Dec(FALSE, NatAdd(NatShift(NatOf(whole), digits), NatOf(frac)))
DecNeg(x) == Dec(~x.neg, x.mag)
DecIsNeg(x) == x.neg
DecIsPos(x) == ~x.neg /\ x.mag # <<>>
DecAdd(x, y) ==
    IF x.neg = y.neg THEN Dec(x.neg, NatAdd(x.mag, y.mag))
    ELSE IF NatCmp(x.mag, y.mag) >= 0 THEN Dec(x.neg, NatSub(x.mag, y.mag))
    ELSE Dec(y.neg, NatSub(y.mag, x.mag))
DecLess(x, y) == DecIsNeg(DecAdd(x, DecNeg(y)))

RECURSIVE DecSum(_, _)
DecSum(f, S) ==
    IF S = {} THEN DecZero
    ELSE LET k == CHOOSE x \in S : TRUE IN DecAdd(f[k], DecSum(f, S \ {k}))

\* ------------------------------------------------ _get_nav_for_flow_date
\* Dates of the fund's snapshots in ns that the policy's filter keeps.
\* Mutant: EXACT also accepts snapshots before flow_date.
NavDatesExact_OnOrBefore(ns, fund, flow_date) ==
    {k[2] : k \in {x \in DOMAIN ns : x[1] = fund /\ x[2] <= flow_date}}

NavDatesExact(ns, fund, flow_date) ==
    {k[2] : k \in {x \in DOMAIN ns : x[1] = fund /\ x[2] = flow_date}}

\* Mutant: PREV forgets the date__lte filter.
NavDatesPrev_Unbounded(ns, fund, flow_date) ==
    {k[2] : k \in {x \in DOMAIN ns : x[1] = fund}}

NavDatesPrev(ns, fund, flow_date) ==
    {k[2] : k \in {x \in DOMAIN ns : x[1] = fund /\ x[2] <= flow_date}}

\* .order_by("-date").first(); NAVSnapshot.Meta orders by "-date" by default.
LatestDate(ds) == CHOOSE d \in ds : \A e \in ds : e <= d

NavAt(ns, fund, d) ==
    [err |-> "none", date |-> d, nav_per_unit |-> ns[<<fund, d>>].nav_per_unit]

NavError(kind) == [err |-> kind, date |-> 0, nav_per_unit |-> 0]

get_nav_for_flow_date(ns, fund, flow_date, pricing_policy) ==
    IF pricing_policy = "EXACT" THEN
        IF NavDatesExact(ns, fund, flow_date) = {} THEN NavError("no_nav")
        ELSE NavAt(ns, fund, LatestDate(NavDatesExact(ns, fund, flow_date)))
    ELSE IF pricing_policy = "PREV" THEN
        IF NavDatesPrev(ns, fund, flow_date) = {} THEN NavError("no_nav")
        ELSE NavAt(ns, fund, LatestDate(NavDatesPrev(ns, fund, flow_date)))
    ELSE NavError("invalid_pricing_policy")

\* ------------------------------------------- segments of apply_capital_flow
\* Mutant: the sign of the amount is tested before it is quantized.
Validate_BeforeRounding(a) ==
    IF a.external_ref = "" THEN "external_ref_required"
    ELSE IF a.amount <= 0 THEN "amount_not_positive"
    ELSE "ok"

\* Lines 61-66: "ok" or the error raised.  The amount is quantized first.
Validate(a) ==
    IF a.external_ref = "" THEN "external_ref_required"
    ELSE IF q_usd(a.amount) <= 0 THEN "amount_not_positive"
    ELSE "ok"

\* Mutant: the idempotency filter also compares flow_date.
ExistingFlows_DateInKey(fl, a) ==
    {r \in fl : r.fund = a.fund /\ r.client = a.client
                /\ r.external_ref = a.external_ref /\ r.flow_date = a.flow_date}

\* Lines 69-71: the rows the idempotency filter matches.
ExistingFlows(fl, a) ==
    {r \in fl : r.fund = a.fund /\ r.client = a.client
                /\ r.external_ref = a.external_ref}

FirstOf(S) == CHOOSE r \in S : TRUE

\* Lines 75-89: the snapshot that prices the flow and the signed units, or
\* the error raised.  a.amount is the quantized amount in cents.
PriceFlow(ns, a) ==
    LET nav == get_nav_for_flow_date(ns, a.fund, a.flow_date, a.pricing_policy)
    IN  IF nav.err # "none" THEN [err |-> nav.err, nav |-> nav, units_delta |-> 0]
        ELSE IF nav.nav_per_unit <= 0
            THEN [err |-> "nav_not_positive", nav |-> nav, units_delta |-> 0]
        ELSE IF a.flow_type = TYPE_SUBSCRIPTION
            THEN [err |-> "none", nav |-> nav,
                  units_delta |-> UnitsFor(a.amount, nav.nav_per_unit)]
        ELSE IF a.flow_type = TYPE_REDEMPTION
            THEN [err |-> "none", nav |-> nav,
                  units_delta |-> -UnitsFor(a.amount, nav.nav_per_unit)]
        ELSE [err |-> "invalid_flow_type", nav |-> nav, units_delta |-> 0]

\* Lines 91-99: the row get_or_create returns, and whether it created it.
AcctDefaults(nav) ==
    [units |-> 0, nav_per_unit |-> nav.nav_per_unit,
     last_valuation_date |-> nav.date]

GetOrCreateAcct(ps, a, nav) ==
    IF <<a.client, a.fund>> \in DOMAIN ps
    THEN [acct |-> ps[<<a.client, a.fund>>], created |-> FALSE]
    ELSE [acct |-> AcctDefaults(nav), created |-> TRUE]

\* Mutant: the guard subtracts the (negative) delta instead of adding it.
RedemptionExceeds_SignSlip(acct, a, units_delta) ==
    /\ a.flow_type = TYPE_REDEMPTION
    /\ ~a.allow_over_redeem
    /\ acct.units - units_delta < 0

\* Lines 101-106: the redemption guard raises.
RedemptionExceeds(acct, a, units_delta) ==
    /\ a.flow_type = TYPE_REDEMPTION
    /\ ~a.allow_over_redeem
    /\ acct.units + units_delta < 0

\* Lines 108-117: the row CapitalFlow.objects.create inserts.
NewFlow(a, nav, units_delta) ==
    [client |-> a.client, fund |-> a.fund, flow_type |-> a.flow_type,
     amount |-> a.amount, nav_at_flow |-> nav.nav_per_unit,
     units_delta |-> units_delta, flow_date |-> a.flow_date,
     external_ref |-> a.external_ref]

\* Mutant: the balance is overwritten with the delta, not increased by it.
SavedAcct_Overwrites(acct, nav, units_delta) ==
    [units |-> q_units(units_delta),
     nav_per_unit |-> nav.nav_per_unit,
     last_valuation_date |-> nav.date]

\* Mutant: acct.save leaves the valuation fields of an existing row.
SavedAcct_KeepsValuation(acct, nav, units_delta) ==
    [units |-> q_units(acct.units + units_delta),
     nav_per_unit |-> acct.nav_per_unit,
     last_valuation_date |-> acct.last_valuation_date]

\* Lines 119-122: the fields acct.save writes.
SavedAcct(acct, nav, units_delta) ==
    [units |-> q_units(acct.units + units_delta),
     nav_per_unit |-> nav.nav_per_unit,
     last_valuation_date |-> nav.date]

\* The positions table with the row of (client, fund) set to acct.
PutAcct(ps, a, acct) ==
    [k \in DOMAIN ps \cup {<<a.client, a.fund>>} |->
        IF k = <<a.client, a.fund>> THEN acct ELSE ps[k]]

\* Line 64: the arguments with amount rebound to the quantized amount (cents).
Quantized(a) == [a EXCEPT !.amount = q_usd(a.amount)]

Raised(kind) == [kind |-> kind, flow |-> NoFlow]
Returned(kind, flow) == [kind |-> kind, flow |-> flow]

\* ------------------------------------------------------ persistence layer
\* Unique constraint on CapitalFlow (fund, client, external_ref): the insert
\* of a row for call a is refused while a committed row has its key.
UniqueViolation(fl, a) == ExistingFlows(fl, a) # {}

\* An insert waits for an uncommitted insert of the same key by another
\* transaction.
PendingSameKey(p) ==
    \E q \in Procs \ {p} :
        /\ pc[q] = "save"
        /\ loc[q].flow.fund = call[p].fund
        /\ loc[q].flow.client = call[p].client
        /\ loc[q].flow.external_ref = call[p].external_ref

\* Mutant: get_or_create without select_for_update never waits.
RowLockFree_NoWait(k, p) == TRUE

\* select_for_update: the row of the pair can be locked by p when no other
\* transaction holds it.
RowLockFree(k, p) == locks[k] = "none"

Unlocked(p) == [k \in Pairs |-> IF locks[k] = p THEN "none" ELSE locks[k]]

\* The model explores calls that can add a row only while the ledger holds
\* fewer than MaxFlows rows.
CallAllowed(a) ==
    \/ Validate(a) # "ok"
    \/ ExistingFlows(flows, Quantized(a)) # {}
    \/ Cardinality(flows) < MaxFlows

\* ------------------------------------------------------------------- Init
Init ==
    /\ flows = {}
    /\ positions = <<>>
    /\ navs = <<>>
    /\ locks = [k \in Pairs |-> "none"]
    /\ pc = [p \in Procs |-> "idle"]
    /\ call = [p \in Procs |-> NoCall]
    /\ loc = [p \in Procs |-> NoLoc]
    /\ result = [p \in Procs |-> NoResult]
    /\ months = <<>>
    /\ last = NoOp
    /\ expenses = <<>>
    /\ adm = [p \in Procs |-> NoAdm]
    /\ navrun = NoNavRun
    /\ reports = <<>>

\* --------------------------------------- apply_capital_flow, run to the end
\* What one whole call does to the committed tables when nothing overlaps it:
\* the value returned or the error raised, and the tables after the
\* transaction commits or rolls back.
Outcome(kind, flow, fl, ps) ==
    [kind |-> kind, flow |-> flow, flows |-> fl, positions |-> ps]

\* Mutant: the price is resolved before the idempotency query, so that a replay
\* fails when its arguments cannot be priced.
ReplayOutcome_PricedFirst(fl, ps, ns, a) ==
    IF PriceFlow(ns, a).err # "none"
    THEN Outcome(PriceFlow(ns, a).err, NoFlow, fl, ps)
    ELSE Outcome("existing", FirstOf(ExistingFlows(fl, a)), fl, ps)

\* Lines 72-73: a row with the key exists; it is returned as it is.
ReplayOutcome(fl, ps, ns, a) ==
    Outcome("existing", FirstOf(ExistingFlows(fl, a)), fl, ps)

\* Mutant: get_or_create runs outside the atomic block; the row it inserted
\* stays when the guard raises.
GuardRaises_KeepsAcct(fl, ps, a, acct) ==
    Outcome("redemption_exceeds_units", NoFlow, fl, PutAcct(ps, a, acct))

\* Lines 102-106 inside the atomic block of line 68: the guard raises and the
\* transaction, with the position row get_or_create may have inserted, is
\* rolled back.
GuardRaises(fl, ps, a, acct) ==
    Outcome("redemption_exceeds_units", NoFlow, fl, ps)

\* Lines 108-124: both writes, committed together.
Committed(fl, ps, a, acct, nav, units_delta) ==
    Outcome("created", NewFlow(a, nav, units_delta),
            fl \cup {NewFlow(a, nav, units_delta)},
            PutAcct(ps, a, SavedAcct(acct, nav, units_delta)))

RunCapitalFlow(fl, ps, ns, a0) ==
    LET a == Quantized(a0) IN
    IF Validate(a0) # "ok" THEN Outcome(Validate(a0), NoFlow, fl, ps)
    ELSE IF ExistingFlows(fl, a) # {} THEN ReplayOutcome(fl, ps, ns, a)
    ELSE LET pr == PriceFlow(ns, a) IN
        IF pr.err # "none" THEN Outcome(pr.err, NoFlow, fl, ps)
        ELSE LET got == GetOrCreateAcct(ps, a, pr.nav) IN
            IF RedemptionExceeds(got.acct, a, pr.units_delta)
            THEN GuardRaises(fl, ps, a, got.acct)
            ELSE Committed(fl, ps, a, got.acct, pr.nav, pr.units_delta)

ApplyCapitalFlow(p, a) ==
    LET out == RunCapitalFlow(flows, positions, navs, a) IN
    /\ pc[p] = "idle"
    /\ CallAllowed(a)
    /\ flows' = out.flows
    /\ positions' = out.positions
    /\ pc' = [pc EXCEPT ![p] = "done"]
    /\ call' = [call EXCEPT ![p] = a]
    /\ result' = [result EXCEPT ![p] = Returned(out.kind, out.flow)]
    /\ UNCHANGED <<navs, locks, loc, fundState>>

\* ------------------------------- apply_capital_flow, statement by statement
\* Lines 61-66: validation, before the transaction opens.
Call(p, a) ==
    /\ pc[p] = "idle"
    /\ CallAllowed(a)
    /\ call' = [call EXCEPT ![p] = a]
    /\ pc' = [pc EXCEPT ![p] = IF Validate(a) = "ok" THEN "check" ELSE "done"]
    /\ result' = [result EXCEPT ![p] =
                     IF Validate(a) = "ok" THEN NoResult ELSE Raised(Validate(a))]
    /\ UNCHANGED <<flows, positions, navs, locks, loc, fundState>>

\* Lines 68-73: the transaction opens; the idempotency query.
Check(p) ==
    /\ pc[p] = "check"
    /\ pc' = [pc EXCEPT ![p] =
                 IF ExistingFlows(flows, Quantized(call[p])) # {} THEN "done" ELSE "price"]
    /\ result' = [result EXCEPT ![p] =
                     IF ExistingFlows(flows, Quantized(call[p])) # {}
                     THEN Returned("existing", FirstOf(ExistingFlows(flows, Quantized(call[p]))))
                     ELSE NoResult]
    /\ UNCHANGED <<flows, positions, navs, locks, call, loc, fundState>>

\* Lines 75-89: price resolution and unit conversion; an error rolls back a
\* transaction that has written nothing.
Price(p) ==
    LET pr == PriceFlow(navs, Quantized(call[p])) IN
    /\ pc[p] = "price"
    /\ pc' = [pc EXCEPT ![p] = IF pr.err = "none" THEN "lock" ELSE "done"]
    /\ loc' = [loc EXCEPT ![p] =
                  IF pr.err = "none"
                  THEN [NoLoc EXCEPT !.nav = pr.nav, !.units_delta = pr.units_delta]
                  ELSE NoLoc]
    /\ result' = [result EXCEPT ![p] =
                     IF pr.err = "none" THEN NoResult ELSE Raised(pr.err)]
    /\ UNCHANGED <<flows, positions, navs, locks, call, fundState>>

\* Lines 91-99: select_for_update().get_or_create.  The caller waits while
\* another transaction holds the row (or its uncommitted insert), then reads
\* the committed row.
Lock(p) ==
    LET k == <<call[p].client, call[p].fund>>
        got == GetOrCreateAcct(positions, Quantized(call[p]), loc[p].nav) IN
    /\ pc[p] = "lock"
    /\ RowLockFree(k, p)
    /\ locks' = [locks EXCEPT ![k] = p]
    /\ loc' = [loc EXCEPT ![p].acct = got.acct, ![p].created = got.created]
    /\ pc' = [pc EXCEPT ![p] = "create"]
    /\ UNCHANGED <<flows, positions, navs, call, result, fundState>>

\* Mutant: the ledger row is fetched with get_or_create; a duplicate key is
\* no error and the position is updated again.
CreateOutcome_IgnoresDuplicate(fl, acct, a, units_delta) ==
    IF RedemptionExceeds(acct, a, units_delta) THEN "redemption_exceeds_units"
    ELSE "ok"

\* Lines 101-117: "ok", or the error that the guard or the insert raises.
CreateOutcome(fl, acct, a, units_delta) ==
    IF RedemptionExceeds(acct, a, units_delta) THEN "redemption_exceeds_units"
    ELSE IF UniqueViolation(fl, a) THEN "integrity_error"
    ELSE "ok"

\* Lines 101-117: the redemption guard and the insert of the ledger row.  An
\* error rolls the transaction back: the position row it may have created is
\* gone and its lock is released.
Create(p) ==
    LET out == CreateOutcome(flows, loc[p].acct, Quantized(call[p]), loc[p].units_delta) IN
    /\ pc[p] = "create"
    /\ ~PendingSameKey(p)
    /\ pc' = [pc EXCEPT ![p] = IF out = "ok" THEN "save" ELSE "done"]
    /\ loc' = [loc EXCEPT ![p] =
                  IF out = "ok"
                  THEN [loc[p] EXCEPT !.flow =
                           NewFlow(Quantized(call[p]), loc[p].nav, loc[p].units_delta)]
                  ELSE NoLoc]
    /\ locks' = IF out = "ok" THEN locks ELSE Unlocked(p)
    /\ result' = [result EXCEPT ![p] = IF out = "ok" THEN NoResult ELSE Raised(out)]
    /\ UNCHANGED <<flows, positions, navs, call, fundState>>

\* Lines 119-124: acct.save, and the commit of both writes on return.
Save(p) ==
    /\ pc[p] = "save"
    /\ flows' = flows \cup {loc[p].flow}
    /\ positions' = PutAcct(positions, call[p],
                            SavedAcct(loc[p].acct, loc[p].nav, loc[p].units_delta))
    /\ locks' = Unlocked(p)
    /\ pc' = [pc EXCEPT ![p] = "done"]
    /\ result' = [result EXCEPT ![p] = Returned("created", loc[p].flow)]
    /\ loc' = [loc EXCEPT ![p] = NoLoc]
    /\ UNCHANGED <<navs, call, fundState>>

\* The caller takes the return value or the exception.
Return(p) ==
    /\ pc[p] = "done"
    /\ pc' = [pc EXCEPT ![p] = "idle"]
    /\ call' = [call EXCEPT ![p] = NoCall]
    /\ result' = [result EXCEPT ![p] = NoResult]
    /\ UNCHANGED <<flows, positions, navs, locks, loc, fundState>>

\* ------------------------------------------- NAVSnapshotAdmin: add a row
\* unique_together (fund, date): a second row for the pair is refused.
AdminAddNAVSnapshot(fund, d, nav_per_unit) ==
    /\ <<fund, d>> \notin DOMAIN navs
    /\ Cardinality(DOMAIN navs) < MaxSnapshots
    /\ navs' = [k \in DOMAIN navs \cup {<<fund, d>>} |->
                  IF k = <<fund, d>> THEN [nav_per_unit |-> nav_per_unit]
                  ELSE navs[k]]
    /\ UNCHANGED <<flows, positions, locks, pc, call, loc, result, fundState>>

\* ---------------------------------------------------------- specifications
\* One caller; a call runs to its end between other operations, and the
\* caller takes its result before the next operation starts.
Next ==
    \/ \E a \in CallInputs : ApplyCapitalFlow("p1", a)
    \/ Return("p1")
    \/ \E f \in Funds, d \in Dates, n \in NavInputs :
          pc["p1"] = "idle" /\ AdminAddNAVSnapshot(f, d, n)

Spec == Init /\ [][Next]_vars

NextOverlap ==
    \/ \E p \in Procs, a \in OvCallInputs : Call(p, a)
    \/ \E p \in Procs : Check(p)
    \/ \E p \in Procs : Price(p)
    \/ \E p \in Procs : Lock(p)
    \/ \E p \in Procs : Create(p)
    \/ \E p \in Procs : Save(p)
    \/ \E p \in Procs : Return(p)
    \/ \E f \in Funds, d \in OvNavDates, n \in OvNavInputs : AdminAddNAVSnapshot(f, d, n)

SpecOverlap == Init /\ [][NextOverlap]_vars

\* ============================================ fund operations, SpecFund
\* The ledger together with the NAV computation, the admin save path and the
\* monthly rollup, at the magnitudes of the stored fields: units, NAV per
\* unit and returns are decimals of any magnitude (Dec), USD amounts handed
\* to apply_capital_flow stay integers in thousandths of a dollar.  Dates are
\* day numbers counted from 2023-12-31 (day 1 is 2024-01-01, day 31 is
\* 2024-01-31).  One operation runs at a time and `last` keeps its arguments
\* and outcome.
FundCallInputs ==
    [client : Clients, fund : {"f1"},
     flow_type : {TYPE_SUBSCRIPTION, TYPE_REDEMPTION},
     flow_date : {1}, amount : {10, 100000, 1000000},
     external_ref : {"R1", "R2"},
     pricing_policy : {"PREV"}, allow_over_redeem : {FALSE}]

\* NAV per unit typed into the NAVSnapshot admin: 1.00000000, 33.33333333
\* and 2500000.00000000.
FundNavInputs ==
    {DecAt(1, 0, UNITS_DIGITS), DecAt(33, 33333333, UNITS_DIGITS),
     DecAt(2500000, 0, UNITS_DIGITS)}

\* _q_units(x), x the exact quotient <<q, r>> of a division by den.
\* Mutant: ROUND_UP for ROUND_HALF_UP.
QuantizeUnits_RoundUp(qr, den) ==
    IF qr[2] # <<>> THEN NatAdd(qr[1], <<1>>) ELSE qr[1]

QuantizeUnits(qr, den) == NatHalfUp(qr, den)

\* Line 82: _q_units(amount / nav_per_unit), amount in cents.
UnitsForDec(amount, nav_per_unit) ==
    Dec(FALSE,
        QuantizeUnits(NatDivMod(NatShift(NatOf(amount),
                                         UNITS_DIGITS + UNITS_DIGITS - USD_DIGITS),
                                nav_per_unit.mag),
                      nav_per_unit.mag))

\* Lines 75-89.
PriceFlowDec(ns, a) ==
    LET nav == get_nav_for_flow_date(ns, a.fund, a.flow_date, a.pricing_policy)
    IN  IF nav.err # "none" THEN [err |-> nav.err, nav |-> nav, units_delta |-> DecZero]
        ELSE IF ~DecIsPos(nav.nav_per_unit)
            THEN [err |-> "nav_not_positive", nav |-> nav, units_delta |-> DecZero]
        ELSE IF a.flow_type = TYPE_SUBSCRIPTION
            THEN [err |-> "none", nav |-> nav,
                  units_delta |-> UnitsForDec(a.amount, nav.nav_per_unit)]
        ELSE IF a.flow_type = TYPE_REDEMPTION
            THEN [err |-> "none", nav |-> nav,
                  units_delta |-> DecNeg(UnitsForDec(a.amount, nav.nav_per_unit))]
        ELSE [err |-> "invalid_flow_type", nav |-> nav, units_delta |-> DecZero]

\* Lines 91-99.
GetOrCreateAcctDec(ps, a, nav) ==
    IF <<a.client, a.fund>> \in DOMAIN ps
    THEN [acct |-> ps[<<a.client, a.fund>>], created |-> FALSE]
    ELSE [acct |-> [units |-> DecZero, nav_per_unit |-> nav.nav_per_unit,
                    last_valuation_date |-> nav.date],
          created |-> TRUE]

\* Lines 101-106.
RedemptionExceedsDec(acct, a, units_delta) ==
    /\ a.flow_type = TYPE_REDEMPTION
    /\ ~a.allow_over_redeem
    /\ DecIsNeg(DecAdd(acct.units, units_delta))

\* Lines 119-122.
SavedAcctDec(acct, nav, units_delta) ==
    [units |-> DecAdd(acct.units, units_delta),
     nav_per_unit |-> nav.nav_per_unit,
     last_valuation_date |-> nav.date]

\* Lines 50-124, as RunCapitalFlow.
RunCapitalFlowDec(fl, ps, ns, a0) ==
    LET a == Quantized(a0) IN
    IF Validate(a0) # "ok" THEN Outcome(Validate(a0), NoFlow, fl, ps)
    ELSE IF ExistingFlows(fl, a) # {} THEN ReplayOutcome(fl, ps, ns, a)
    ELSE LET pr == PriceFlowDec(ns, a) IN
        IF pr.err # "none" THEN Outcome(pr.err, NoFlow, fl, ps)
        ELSE LET got == GetOrCreateAcctDec(ps, a, pr.nav) IN
            IF RedemptionExceedsDec(got.acct, a, pr.units_delta)
            THEN GuardRaises(fl, ps, a, got.acct)
            ELSE Outcome("created", NewFlow(a, pr.nav, pr.units_delta),
                         fl \cup {NewFlow(a, pr.nav, pr.units_delta)},
                         PutAcct(ps, a, SavedAcctDec(got.acct, pr.nav, pr.units_delta)))

ledgerCallers == <<locks, pc, call, loc, result>>

ApplyCapitalFlowDec(a) ==
    LET out == RunCapitalFlowDec(flows, positions, navs, a) IN
    /\ CallAllowed(a)
    /\ flows' = out.flows
    /\ positions' = out.positions
    /\ last' = [op |-> "apply_capital_flow", args |-> a, kind |-> out.kind,
                flow |-> out.flow]
    /\ UNCHANGED <<navs, months, ledgerCallers, otherState>>

\* NAVSnapshotAdmin: a row typed in by hand; unique_together (fund, date).
AdminAddNAVSnapshotDec(fund, d, nav_per_unit) ==
    /\ <<fund, d>> \notin DOMAIN navs
    /\ Cardinality(DOMAIN navs) < MaxSnapshots
    /\ navs' = [k \in DOMAIN navs \cup {<<fund, d>>} |->
                  IF k = <<fund, d>>
                  THEN [nav_per_unit |-> nav_per_unit, total_units |-> DecZero,
                        aum |-> DecZero, cash_balance |-> DecNull]
                  ELSE navs[k]]
    /\ last' = [op |-> "add_navsnapshot", fund |-> fund, date |-> d]
    /\ UNCHANGED <<flows, positions, months, ledgerCallers, otherState>>

\* ------------------------------------------- CapitalFlowAdmin.save_model
\* The form of the admin: the amount is a 2-decimal field, given here in
\* thousandths of a dollar like every amount handed to apply_capital_flow.
AdminFlowInputs ==
    [client : Clients, fund : Funds,
     flow_type : {TYPE_SUBSCRIPTION, TYPE_REDEMPTION},
     flow_date : {1}, amount : {1000000}]

INCEPTION_NAV == DecAt(1, 0, UNITS_DIGITS)

\* strftime("%Y%m%d") of a day number of December 2023 to February 2024.
DateStr(d) ==
    IF d <= 0 THEN ToString(20231231 + d)
    ELSE IF d <= 31 THEN ToString(20240100 + d)
    ELSE ToString(20240200 + d - 31)

\* external_refs.py: generate_external_ref.
generate_external_ref(client_id, fund_strategy, flow_date) ==
    "MANUAL-" \o client_id \o "-" \o fund_strategy \o "-" \o DateStr(flow_date)

\* f"{seq:03d}"
Pad3(seq) ==
    IF seq < 10 THEN "00" \o ToString(seq)
    ELSE IF seq < 100 THEN "0" \o ToString(seq)
    ELSE ToString(seq)

\* admin.py lines 148-163: the first "<base>-<seq>" no row of the pair has.
RECURSIVE FreeExternalRef(_, _, _)
FreeExternalRef(fl, obj, seq) ==
    LET external_ref ==
            generate_external_ref(obj.client, obj.fund, obj.flow_date)
            \o "-" \o Pad3(seq)
    IN  IF \E r \in fl : /\ r.fund = obj.fund /\ r.client = obj.client
                         /\ r.external_ref = external_ref
        THEN FreeExternalRef(fl, obj, seq + 1)
        ELSE external_ref

\* admin.py lines 130-143: the snapshots after the inception check.
WithInceptionNav(fl, ns, obj) ==
    IF /\ <<obj.fund, obj.flow_date>> \notin DOMAIN ns
       /\ ~\E k \in DOMAIN ns : k[1] = obj.fund
       /\ ~\E r \in fl : r.fund = obj.fund
    THEN [k \in DOMAIN ns \cup {<<obj.fund, obj.flow_date>>} |->
            IF k = <<obj.fund, obj.flow_date>>
            THEN [nav_per_unit |-> INCEPTION_NAV, total_units |-> DecZero,
                  aum |-> DecZero, cash_balance |-> DecNull]
            ELSE ns[k]]
    ELSE ns

\* admin.py lines 168-175: the call the admin makes (defaults PREV, no
\* over-redemption).
AdminCall(fl, obj) ==
    [client |-> obj.client, fund |-> obj.fund, flow_type |-> obj.flow_type,
     flow_date |-> obj.flow_date, amount |-> obj.amount,
     external_ref |-> FreeExternalRef(fl, obj, 1),
     pricing_policy |-> "PREV", allow_over_redeem |-> FALSE]

SaveOutcome(kind, flow, fl, ps, ns) ==
    [kind |-> kind, flow |-> flow, flows |-> fl, positions |-> ps, navs |-> ns]

\* Mutant: the test of `change` is missing; an edit runs the create path.
RejectsChange_Never(change) == FALSE

\* admin.py lines 121-124.
RejectsChange(change) == change

\* admin.py lines 118-184: an error of apply_capital_flow leaves the atomic
\* block of line 126 and rolls back the inception snapshot with the rest.
RunSaveModel(fl, ps, ns, obj, change) ==
    IF RejectsChange(change) THEN SaveOutcome("immutable", NoFlow, fl, ps, ns)
    ELSE LET out == RunCapitalFlowDec(fl, ps, WithInceptionNav(fl, ns, obj),
                                      AdminCall(fl, obj))
         IN  IF out.kind \in {"created", "existing"}
             THEN SaveOutcome(out.kind, out.flow, out.flows, out.positions,
                              WithInceptionNav(fl, ns, obj))
             ELSE SaveOutcome(out.kind, NoFlow, fl, ps, ns)

\* The model explores saves that can add a row or a snapshot only while the
\* tables hold fewer than MaxFlows rows and MaxSnapshots snapshots; an edit
\* (change) is the save of a form opened on an existing row.
SaveModel(obj, change) ==
    LET out == RunSaveModel(flows, positions, navs, obj, change) IN
    /\ change => \E r \in flows : r.client = obj.client /\ r.fund = obj.fund
    /\ Cardinality(flows) < MaxFlows
    /\ Cardinality(DOMAIN navs) < MaxSnapshots
    /\ flows' = out.flows
    /\ positions' = out.positions
    /\ navs' = out.navs
    /\ last' = [op |-> "save_model", obj |-> obj, change |-> change,
                kind |-> out.kind, flow |-> out.flow]
    /\ UNCHANGED <<months, ledgerCallers, otherState>>

\* ------------------------------------------- compute_and_save_navsnapshot
\* funds/models.py: custodian and status of the funds.
FundTable ==
    [f \in Funds |->
        IF f = "f1" THEN [custodian |-> "ALPACA", status |-> "ACTIVE"]
        ELSE [custodian |-> "IBKR", status |-> "PAUSED"]]

\* What AlpacaValuationService.get_account_valuation does: it raises, or it
\* returns equity and cash as the broker words them (here in thousandths of
\* a dollar).
BrokerInputs ==
    {[ok |-> FALSE, equity |-> 0, cash |-> 0],
     [ok |-> TRUE, equity |-> -5000, cash |-> 0],
     [ok |-> TRUE, equity |-> 0, cash |-> 0],
     [ok |-> TRUE, equity |-> 10, cash |-> 10],
     [ok |-> TRUE, equity |-> 1050000, cash |-> 250004],
     [ok |-> TRUE, equity |-> 2100005, cash |-> 250005]}

NavDates == {31}

\* nav.py lines 40-42: Sum("units") over the fund's positions, or 0.
TotalUnits(ps, fund) ==
    DecSum([k \in DOMAIN ps |-> ps[k].units], {k \in DOMAIN ps : k[2] = fund})

\* nav.py line 58: _q_nav(aum / total_units), aum in cents.  Python raises
\* on a zero divisor.
NavPerUnit(aum, total_units) ==
    Dec(aum.neg # total_units.neg,
        NatHalfUp(NatDivMod(NatShift(aum.mag, UNITS_DIGITS + UNITS_DIGITS - USD_DIGITS),
                            total_units.mag),
                  total_units.mag))

\* Mutant: only a negative total is refused.
TotalUnitsRefused_OnlyNegative(total_units) == DecIsNeg(total_units)

\* nav.py line 44.
TotalUnitsRefused(total_units) == ~DecIsPos(total_units)

\* Mutant: a failed valuation call is tried once more.
ValuationCalls_RetryOnFailure(b) == IF b.ok THEN 1 ELSE 2

\* nav.py line 55: the broker is called once, whatever comes of it.
ValuationCalls(b) == 1

\* nav.py lines 57-69: the fields the run computes.
NavFields(total_units, b) ==
    [nav_per_unit |-> NavPerUnit(DecOfInt(q_usd(b.equity)), total_units),
     total_units |-> total_units,
     aum |-> DecOfInt(q_usd(b.equity)),
     cash_balance |-> DecOfInt(q_usd(b.cash))]

\* Mutant: get_or_create for update_or_create; an existing row stays.
UpsertNav_KeepsExisting(ns, fund, as_of, fields) ==
    [k \in DOMAIN ns \cup {<<fund, as_of>>} |->
        IF k \in DOMAIN ns THEN ns[k] ELSE fields]

\* nav.py lines 60-70: update_or_create on (fund, date).
UpsertNav(ns, fund, as_of, fields) ==
    [k \in DOMAIN ns \cup {<<fund, as_of>>} |->
        IF k = <<fund, as_of>> THEN fields ELSE ns[k]]

NavOutcome(kind, calls, ns) == [kind |-> kind, broker_calls |-> calls, navs |-> ns]

\* nav.py lines 27-71.
RunComputeNav(ps, ns, fund, as_of, b) ==
    LET total_units == TotalUnits(ps, fund) IN
    IF FundTable[fund].custodian # "ALPACA" THEN NavOutcome("not_alpaca", 0, ns)
    ELSE IF FundTable[fund].status # "ACTIVE" THEN NavOutcome("not_active", 0, ns)
    ELSE IF TotalUnitsRefused(total_units)
        THEN NavOutcome("total_units_not_positive", 0, ns)
    ELSE IF ~b.ok THEN NavOutcome("broker_error", ValuationCalls(b), ns)
    ELSE IF total_units.mag = <<>>
        THEN NavOutcome("division_by_zero", ValuationCalls(b), ns)
    ELSE NavOutcome("saved", ValuationCalls(b),
                    UpsertNav(ns, fund, as_of, NavFields(total_units, b)))

\* The model explores runs that can add a snapshot only while the table
\* holds fewer than MaxSnapshots.
ComputeNav(fund, as_of, b) ==
    LET out == RunComputeNav(positions, navs, fund, as_of, b) IN
    /\ <<fund, as_of>> \in DOMAIN navs \/ Cardinality(DOMAIN navs) < MaxSnapshots
    /\ navs' = out.navs
    /\ last' = [op |-> "compute_nav", fund |-> fund, as_of |-> as_of, broker |-> b,
                kind |-> out.kind, broker_calls |-> out.broker_calls,
                created |-> <<fund, as_of>> \notin DOMAIN navs]
    /\ UNCHANGED <<flows, positions, months, ledgerCallers, otherState>>

\* ------------------------------------------ generate_monthly_snapshot_task
IsLeap(year) == year % 4 = 0 /\ (year % 100 # 0 \/ year % 400 = 0)
DaysInMonth(year, month) ==
    IF month \in {4, 6, 9, 11} THEN 30
    ELSE IF month = 2 THEN (IF IsLeap(year) THEN 29 ELSE 28)
    ELSE 31
DaysInYear(year) == IF IsLeap(year) THEN 366 ELSE 365

RECURSIVE DaysBefore(_, _)
DaysBefore(year, month) ==
    IF month = 1 THEN 0
    ELSE DaysBefore(year, month - 1) + DaysInMonth(year, month - 1)

\* The day number of 31 December of the year before.
RECURSIVE YearStart(_)
YearStart(year) ==
    IF year = 2024 THEN 0
    ELSE IF year < 2024 THEN YearStart(year + 1) - DaysInYear(year)
    ELSE YearStart(year - 1) + DaysInYear(year - 1)

\* date(year, month, day) as a day number.
DayNumber(year, month, day) == YearStart(year) + DaysBefore(year, month) + day

\* tasks.py lines 33-39.
month_bounds(year, month) ==
    [start |-> DayNumber(year, month, 1),
     end |-> IF month = 12 THEN DayNumber(year + 1, 1, 1) - 1
             ELSE DayNumber(year, month + 1, 1) - 1]

\* tasks.py lines 42-47: the fund's latest snapshot dated <= d, or none.
get_latest_nav_on_or_before(ns, fund, d) ==
    LET ds == {k[2] : k \in {x \in DOMAIN ns : x[1] = fund /\ x[2] <= d}}
    IN  IF ds = {} THEN [found |-> FALSE, date |-> 0, nav_per_unit |-> DecZero]
        ELSE [found |-> TRUE, date |-> LatestDate(ds),
              nav_per_unit |-> ns[<<fund, LatestDate(ds)>>].nav_per_unit]

\* Mutant: the opening boundary is looked up at the end of the month.
BomDate_MonthEnd(bounds) == bounds.end

\* tasks.py line 68: the date the opening boundary is looked up at.
BomDate(bounds) == bounds.start

\* What YFinancePriceProvider.get_daily_close does: it raises, or it returns
\* the closes of the period (here in cents), none when there is no data.
BenchInputs ==
    {[ok |-> FALSE, close |-> <<>>],
     [ok |-> TRUE, close |-> <<>>],
     [ok |-> TRUE, close |-> <<47000>>],
     [ok |-> TRUE, close |-> <<47000, 47250, 48410>>],
     [ok |-> TRUE, close |-> <<47000, 46060>>]}

RollupMonths == {<<2023, 12>>, <<2024, 1>>}

\* Digits of the MonthlySnapshot columns (models.py lines 94-115).
RETURN_DIGITS == 6
RETURN_MAX_DIGITS == 10

\* x / den carried to `shift` more digits, rounded half even: the rounding
\* of the default context, which a DecimalField column applies on save and
\* quantize applies when given no rounding.
DecQuotient(x, den, shift) ==
    Dec(x.neg, NatHalfEven(NatDivMod(NatShift(x.mag, shift), den), den))

\* tasks.py line 82, as the fund_return column holds it:
\* nav_eom / nav_bom - 1 to 6 decimals.
FundReturn(nav_bom, nav_eom) ==
    DecQuotient(DecAdd(nav_eom, DecNeg(nav_bom)), nav_bom.mag, RETURN_DIGITS)

\* tasks.py line 87: (nav_eom * total_units).quantize(Decimal("0.01")).
AumEom(nav_eom, total_units) ==
    DecQuotient(Dec(nav_eom.neg # total_units.neg, NatMul(nav_eom.mag, total_units.mag)),
                NatShift(<<1>>, UNITS_DIGITS + UNITS_DIGITS - USD_DIGITS), 0)

\* tasks.py line 99: a return can be taken from the series.
BenchUsable(bench) == bench.ok /\ Len(bench.close) >= 2 /\ bench.close[1] > 0

\* tasks.py line 100, as the benchmark_return column holds it.
BenchReturn(bench) ==
    DecQuotient(DecOfInt(bench.close[Len(bench.close)] - bench.close[1]),
                NatOf(bench.close[1]), RETURN_DIGITS)

\* tasks.py line 101, as the excess_return column holds it:
\* (nav_eom - nav_bom) / nav_bom - (last - first) / first over one divisor.
ExcessReturn(nav_bom, nav_eom, bench) ==
    LET first == NatOf(bench.close[1])
        gain == DecOfInt(bench.close[Len(bench.close)] - bench.close[1])
        up == DecAdd(nav_eom, DecNeg(nav_bom))
    IN  DecQuotient(DecAdd(Dec(up.neg, NatMul(up.mag, first)),
                           DecNeg(Dec(gain.neg, NatMul(gain.mag, nav_bom.mag)))),
                    NatMul(nav_bom.mag, first), RETURN_DIGITS)

\* tasks.py lines 116-127: the fields update_or_create is given.
MonthFields(nav_bom, nav_eom, total_units, bench, a) ==
    [nav_bom |-> nav_bom, nav_eom |-> nav_eom,
     aum_eom |-> AumEom(nav_eom, total_units),
     fund_return |-> FundReturn(nav_bom, nav_eom),
     benchmark_symbol |-> a.benchmark_symbol,
     benchmark_return |-> IF BenchUsable(bench) THEN BenchReturn(bench) ELSE DecNull,
     excess_return |-> IF BenchUsable(bench) THEN ExcessReturn(nav_bom, nav_eom, bench)
                       ELSE DecNull,
     strategy_version |-> IF a.strategy_version = "" THEN "unknown"
                          ELSE a.strategy_version,
     model_change |-> a.model_change]

\* models.py lines 94-115: what the columns refuse.  A value of more than
\* max_digits digits cannot be quantized for the column; benchmark_return
\* and excess_return are declared without null=True.
ColumnError(row) ==
    IF \/ Len(row.fund_return.mag) > RETURN_MAX_DIGITS
       \/ ~IsNull(row.benchmark_return) /\ Len(row.benchmark_return.mag) > RETURN_MAX_DIGITS
       \/ ~IsNull(row.excess_return) /\ Len(row.excess_return.mag) > RETURN_MAX_DIGITS
    THEN "decimal_overflow"
    ELSE IF IsNull(row.benchmark_return) \/ IsNull(row.excess_return)
    THEN "integrity_error"
    ELSE "none"

\* Mutant: get_or_create for update_or_create; an existing row stays.
UpsertMonth_KeepsExisting(ms, fund, as_of_month, fields) ==
    [k \in DOMAIN ms \cup {<<fund, as_of_month>>} |->
        IF k \in DOMAIN ms THEN ms[k] ELSE fields]

\* tasks.py lines 112-128: update_or_create on (fund, as_of_month).
UpsertMonth(ms, fund, as_of_month, fields) ==
    [k \in DOMAIN ms \cup {<<fund, as_of_month>>} |->
        IF k = <<fund, as_of_month>> THEN fields ELSE ms[k]]

RollupOutcome(kind, bom, eom, ms) ==
    [kind |-> kind, nav_bom |-> bom, nav_eom |-> eom, months |-> ms]

\* tasks.py lines 51-138.
RunRollup(ps, ns, ms, a, bench) ==
    LET bounds == month_bounds(a.year, a.month)
        bom == get_latest_nav_on_or_before(ns, a.fund, BomDate(bounds))
        eom == get_latest_nav_on_or_before(ns, a.fund, bounds.end)
        row == MonthFields(bom.nav_per_unit, eom.nav_per_unit,
                           TotalUnits(ps, a.fund), bench, a)
    IN  IF ~bom.found \/ ~eom.found
        THEN RollupOutcome("missing_nav_boundaries", bom, eom, ms)
        ELSE IF ~DecIsPos(bom.nav_per_unit)
        THEN RollupOutcome("nav_bom_not_positive", bom, eom, ms)
        ELSE IF ColumnError(row) # "none"
        THEN RollupOutcome(ColumnError(row), bom, eom, ms)
        ELSE RollupOutcome("saved", bom, eom,
                           UpsertMonth(ms, a.fund, bounds.end, row))

RollupArgs(fund, ym) ==
    [fund |-> fund, year |-> ym[1], month |-> ym[2], benchmark_symbol |-> "SPY",
     strategy_version |-> "", model_change |-> FALSE]

GenerateMonthlySnapshot(a, bench) ==
    LET out == RunRollup(positions, navs, months, a, bench) IN
    /\ months' = out.months
    /\ last' = [op |-> "rollup", args |-> a, bench |-> bench, kind |-> out.kind,
                nav_bom |-> out.nav_bom, nav_eom |-> out.nav_eom,
                created |-> <<a.fund, month_bounds(a.year, a.month).end>>
                                \notin DOMAIN months]
    /\ UNCHANGED <<flows, positions, navs, ledgerCallers, otherState>>

NextFund ==
    \/ \E a \in FundCallInputs : ApplyCapitalFlowDec(a)
    \/ \E n \in FundNavInputs : AdminAddNAVSnapshotDec("f1", 1, n)
    \/ \E obj \in AdminFlowInputs, change \in BOOLEAN : SaveModel(obj, change)
    \/ \E f \in Funds, d \in NavDates, b \in BrokerInputs : ComputeNav(f, d, b)

SpecFund == Init /\ [][NextFund]_vars

\* The scenario of the rollup: one fund, its snapshots typed in on the last
\* day of 2023 (NAV 0), the first of January (1.00000000) and the last of
\* January (1.05000000), and flows of 1000.00.
RollupCallInputs ==
    [client : Clients, fund : {"f1"},
     flow_type : {TYPE_SUBSCRIPTION, TYPE_REDEMPTION},
     flow_date : {1}, amount : {1000000}, external_ref : {"R1", "R2"},
     pricing_policy : {"PREV"}, allow_over_redeem : {FALSE}]

RollupNavInputs ==
    {<<0, DecZero>>, <<1, DecAt(1, 0, UNITS_DIGITS)>>,
     <<31, DecAt(1, 5000000, UNITS_DIGITS)>>}

NextRollup ==
    \/ \E a \in RollupCallInputs : ApplyCapitalFlowDec(a)
    \/ \E dn \in RollupNavInputs : AdminAddNAVSnapshotDec("f1", dn[1], dn[2])
    \/ \E ym \in RollupMonths, bench \in BenchInputs :
          GenerateMonthlySnapshot(RollupArgs("f1", ym), bench)

SpecRollup == Init /\ [][NextRollup]_vars

\* ------------------------------------------------------ fees, SpecFees
\* Arithmetic of the default decimal context: every operation gives the
\* exact result rounded half even to 28 significant digits.
CTX_PREC == 28

NatPad(s, n) == IF Len(s) < n THEN [i \in 1..(n - Len(s)) |-> 0] \o s ELSE s
\* The digits of mag above its d lowest, and its d lowest.
NatHead(mag, d) == IF Len(mag) <= d THEN <<>> ELSE SubSeq(mag, 1, Len(mag) - d)
NatTail(mag, d) == SubSeq(NatPad(mag, d), Len(NatPad(mag, d)) - d + 1, Len(NatPad(mag, d)))
AllZero(s) == \A i \in 1..Len(s) : s[i] = 0

\* mag without its d lowest digits, rounded half even; `sticky` says that
\* digits below mag's lowest were not zero.
DropHalfEven(mag, d, sticky) ==
    IF d = 0 THEN mag
    ELSE LET h == NatHead(mag, d)
             t == NatTail(mag, d)
             exact == AllZero(Tail(t)) /\ ~sticky
         IN  IF t[1] > 5 \/ (t[1] = 5 /\ (~exact \/ NatLast(h) % 2 = 1))
             THEN NatAdd(h, <<1>>) ELSE h

\* mag without its d lowest digits, rounded half up (ties away from zero).
DropHalfUp(mag, d) ==
    IF d = 0 THEN mag
    ELSE IF NatTail(mag, d)[1] >= 5 THEN NatAdd(NatHead(mag, d), <<1>>)
    ELSE NatHead(mag, d)

\* A context number: mag * 10^-exp, negative when neg.
Ctx(neg, mag, exp) == [neg |-> neg /\ mag # <<>>, mag |-> mag, exp |-> exp]

CtxRound(neg, mag, exp, sticky) ==
    LET d == IF Len(mag) > CTX_PREC THEN Len(mag) - CTX_PREC ELSE 0
    IN  Ctx(neg, DropHalfEven(mag, d, sticky), exp - d)

\* x / den for a natural den, in the context.
CtxDiv(x, den) ==
    IF x.mag = <<>> THEN Ctx(FALSE, <<>>, x.exp)
    ELSE LET s == CTX_PREC + 1 + Len(den) - Len(x.mag)
             qr == NatDivMod(NatShift(x.mag, s), den)
         IN  CtxRound(x.neg, qr[1], x.exp + s, qr[2] # <<>>)

\* a * b, by machine arithmetic on the digits of a when b is small enough.
NatTimes(a, b) ==
    IF Len(b) <= 8 THEN NatStrip(NatMulDigit(a, NatToInt(b), 0)) ELSE NatMul(a, b)

CtxMul(x, y) ==
    CtxRound(x.neg # y.neg,
             IF Len(x.mag) < Len(y.mag) THEN NatTimes(y.mag, x.mag)
             ELSE NatTimes(x.mag, y.mag),
             x.exp + y.exp, FALSE)

\* fees.py lines 14-15: _q_usd, the result in cents.
CtxQuantizeUsd(x) ==
    IF x.exp <= USD_DIGITS THEN Dec(x.neg, NatShift(x.mag, USD_DIGITS - x.exp))
    ELSE Dec(x.neg, DropHalfUp(x.mag, x.exp - USD_DIGITS))

\* annual_rate is given with RATE_DIGITS decimals, the AUM column in cents.
RATE_DIGITS == 4
DAYS_PER_YEAR == 365

\* fees.py line 33: _q_usd(aum * (annual_rate / Decimal("365"))).
DailyFee(aum, annual_rate) ==
    CtxQuantizeUsd(CtxMul(Ctx(aum.neg, aum.mag, USD_DIGITS),
                          CtxDiv(Ctx(annual_rate.neg, annual_rate.mag, RATE_DIGITS),
                                 NatOf(DAYS_PER_YEAR))))

TYPE_MGMT_FEE == "MGMT_FEE"
\* paid_at empty.
NoTime == 0
Times == {1}

\* The snapshots typed in, <<date, AUM in cents>>: a negative AUM, zero, a
\* round amount, and 1186.25, whose fee at 2% is 6.5 cents.
FeeNavInputs ==
    {<<1, DecOfInt(-500)>>, <<1, DecOfInt(100000)>>, <<1, DecOfInt(118625)>>,
     <<2, DecZero>>, <<2, DecOfInt(118625)>>}
\* The calls: the service on either day at -1%, 0 or 2%; the daily task
\* today (day 2) at its default of 2% or at 5%.
Today == 2
FeeCallInputs ==
    ({"service"} \X {1, 2} \X {Dec(TRUE, NatOf(100)), DecZero, DecOfInt(200)})
    \cup ({"task"} \X {Today} \X {DecOfInt(200), DecOfInt(500)})

\* NAVSnapshotAdmin: a snapshot typed in by hand with its AUM.
AdminAddNAVSnapshotAum(fund, d, aum) ==
    /\ <<fund, d>> \notin DOMAIN navs
    /\ Cardinality(DOMAIN navs) < MaxSnapshots
    /\ navs' = [k \in DOMAIN navs \cup {<<fund, d>>} |->
                  IF k = <<fund, d>>
                  THEN [nav_per_unit |-> DecAt(1, 0, UNITS_DIGITS),
                        total_units |-> DecZero, aum |-> aum,
                        cash_balance |-> DecNull]
                  ELSE navs[k]]
    /\ last' = [op |-> "add_navsnapshot", fund |-> fund, date |-> d]
    /\ UNCHANGED <<flows, positions, months, ledgerCallers, otherState>>

\* fees.py line 25: filter(fund=fund, date=as_of).first().
FeeSnapshotDates(ns, fund, as_of) ==
    {k[2] : k \in {x \in DOMAIN ns : x[1] = fund /\ x[2] = as_of}}

\* Mutant: is_paid left out of the defaults.
FeeDefaults_KeepPaid(old, amount) ==
    [amount |-> amount, is_paid |-> old.is_paid, paid_at |-> old.paid_at]

\* fees.py lines 40-43: the defaults of update_or_create: amount and is_paid
\* are written, paid_at is not among them.
FeeDefaults(old, amount) ==
    [amount |-> amount, is_paid |-> FALSE, paid_at |-> old.paid_at]

\* models.py lines 20-22: a new row is unpaid with paid_at empty.
NewExpense == [amount |-> DecZero, is_paid |-> FALSE, paid_at |-> NoTime]

\* fees.py lines 35-45: update_or_create on (fund, expense_type, as_of_date).
UpsertExpense(es, key, amount) ==
    [k \in DOMAIN es \cup {key} |->
        IF k = key
        THEN FeeDefaults(IF key \in DOMAIN es THEN es[key] ELSE NewExpense, amount)
        ELSE es[k]]

FeeOutcome(kind, es) == [kind |-> kind, expenses |-> es]

\* fees.py lines 18-45.
RunAccrue(ns, es, fund, as_of, annual_rate) ==
    IF FeeSnapshotDates(ns, fund, as_of) = {}
    THEN FeeOutcome("no_navsnapshot", es)
    ELSE LET d == CHOOSE x \in FeeSnapshotDates(ns, fund, as_of) : TRUE
             aum == ns[<<fund, d>>].aum
         IN  IF DecIsNeg(aum) THEN FeeOutcome("aum_negative", es)
             ELSE FeeOutcome("saved",
                      UpsertExpense(es, <<fund, TYPE_MGMT_FEE, as_of>>,
                                    DailyFee(aum, annual_rate)))

feeBystanders ==
    <<flows, positions, navs, months, ledgerCallers, adminState, navState,
      mailState>>

\* accrue_management_fee_for_day called by `caller`: "service" for a direct
\* call, "task" for accrue_mgmt_fee_daily_task (tasks.py lines 9-16), which
\* takes today's date as as_of and the rate parsed from its string.
AccrueManagementFee(caller, fund, as_of, annual_rate) ==
    LET out == RunAccrue(navs, expenses, fund, as_of, annual_rate) IN
    /\ expenses' = out.expenses
    /\ last' = [op |-> "accrue", caller |-> caller, fund |-> fund, as_of |-> as_of,
                annual_rate |-> annual_rate, kind |-> out.kind]
    /\ UNCHANGED feeBystanders

\* admin.py lines 43-55: mark_paid on the selected rows at time `now`.
MarkPaidRow(e, now) ==
    IF e.is_paid THEN e
    ELSE [e EXCEPT !.is_paid = TRUE,
                   !.paid_at = IF e.paid_at = NoTime THEN now ELSE e.paid_at]

MarkPaid(sel, now) ==
    /\ sel # {} /\ sel \subseteq DOMAIN expenses
    /\ expenses' = [k \in DOMAIN expenses |->
                      IF k \in sel THEN MarkPaidRow(expenses[k], now) ELSE expenses[k]]
    /\ last' = [op |-> "mark_paid"]
    /\ UNCHANGED feeBystanders

\* admin.py lines 60-65: queryset.update(is_paid=False, paid_at=None).
MarkUnpaid(sel) ==
    /\ sel # {} /\ sel \subseteq DOMAIN expenses
    /\ expenses' = [k \in DOMAIN expenses |->
                      IF k \in sel
                      THEN [expenses[k] EXCEPT !.is_paid = FALSE, !.paid_at = NoTime]
                      ELSE expenses[k]]
    /\ last' = [op |-> "mark_unpaid"]
    /\ UNCHANGED feeBystanders

NextFees ==
    \/ \E n \in FeeNavInputs : AdminAddNAVSnapshotAum("f1", n[1], n[2])
    \/ \E c \in FeeCallInputs : AccrueManagementFee(c[1], "f1", c[2], c[3])
    \/ \E sel \in SUBSET DOMAIN expenses, now \in Times : MarkPaid(sel, now)
    \/ \E sel \in SUBSET DOMAIN expenses : MarkUnpaid(sel)

SpecFees == Init /\ [][NextFees]_vars

\* ------------------- CapitalFlowAdmin.save_model, statement by statement
\* Two admin saves of new rows (change = False) that may overlap.  Each runs
\* in one transaction (admin.py line 126): what it writes is committed when
\* save_model returns and discarded when it raises; its queries read what is
\* committed and what it wrote itself.
AdmFlowInputs ==
    [client : Clients, fund : {"f1"},
     flow_type : {TYPE_SUBSCRIPTION, TYPE_REDEMPTION},
     flow_date : Dates, amount : {1000}]

\* admin.py lines 137-143, nav_per_unit=1.0 as the ledger of Spec holds it.
InceptionNavRow == [nav_per_unit |-> UNITS_SCALE]

\* admin.py lines 130-136: the inception snapshot is to be inserted.
NeedsInceptionNav(fl, ns, obj) ==
    /\ <<obj.fund, obj.flow_date>> \notin DOMAIN ns
    /\ ~\E k \in DOMAIN ns : k[1] = obj.fund
    /\ ~\E r \in fl : r.fund = obj.fund

\* The snapshots the transaction of p reads: the committed ones and its own
\* inception snapshot.
VisibleNavs(p) ==
    IF adm[p].nav
    THEN [k \in DOMAIN navs \cup {<<adm[p].obj.fund, adm[p].obj.flow_date>>} |->
            IF k \in DOMAIN navs THEN navs[k] ELSE InceptionNavRow]
    ELSE navs

\* Another transaction holds an uncommitted insert of the snapshot (fund,
\* date) that p is about to insert: the insert of p waits for it.
PendingSameNav(p) ==
    \E q \in Procs \ {p} :
        /\ adm[q].nav
        /\ adm[q].obj.fund = adm[p].obj.fund
        /\ adm[q].obj.flow_date = adm[p].obj.flow_date

\* admin.py lines 121-136: a new row is saved; the transaction opens and the
\* inception queries run.
AdminBegin(p, obj) ==
    /\ pc[p] = "idle"
    /\ Cardinality(flows) < MaxFlows
    /\ adm' = [adm EXCEPT ![p] = [obj |-> obj, nav |-> FALSE]]
    /\ pc' = [pc EXCEPT ![p] =
                 IF NeedsInceptionNav(flows, navs, obj) THEN "adm_nav" ELSE "adm_ref"]
    /\ UNCHANGED <<flows, positions, navs, locks, call, loc, result, months, last,
                   feeState, navState, mailState>>

\* admin.py lines 137-143: NAVSnapshot.objects.create.  unique_together
\* (fund, date) refuses the row when another transaction has committed it
\* since line 130.
AdminInception(p) ==
    /\ pc[p] = "adm_nav"
    /\ ~PendingSameNav(p)
    /\ IF <<adm[p].obj.fund, adm[p].obj.flow_date>> \in DOMAIN navs
       THEN /\ pc' = [pc EXCEPT ![p] = "done"]
            /\ result' = [result EXCEPT ![p] = Raised("integrity_error")]
            /\ adm' = adm
       ELSE /\ pc' = [pc EXCEPT ![p] = "adm_ref"]
            /\ result' = result
            /\ adm' = [adm EXCEPT ![p].nav = TRUE]
    /\ UNCHANGED <<flows, positions, navs, locks, call, loc, months, last, feeState, navState, mailState>>

\* admin.py lines 148-175 and capital_flows.py lines 61-66: the sequence
\* number is picked against the committed rows and apply_capital_flow is
\* entered with it.
AdminPickRef(p) ==
    LET a == AdminCall(flows, adm[p].obj) IN
    /\ pc[p] = "adm_ref"
    /\ call' = [call EXCEPT ![p] = a]
    /\ pc' = [pc EXCEPT ![p] = IF Validate(a) = "ok" THEN "check" ELSE "done"]
    /\ result' = [result EXCEPT ![p] =
                     IF Validate(a) = "ok" THEN NoResult ELSE Raised(Validate(a))]
    /\ UNCHANGED <<flows, positions, navs, locks, loc, months, last, otherState>>

\* capital_flows.py lines 75-89 inside the transaction of save_model.
AdmPrice(p) ==
    LET pr == PriceFlow(VisibleNavs(p), Quantized(call[p])) IN
    /\ pc[p] = "price"
    /\ pc' = [pc EXCEPT ![p] = IF pr.err = "none" THEN "lock" ELSE "done"]
    /\ loc' = [loc EXCEPT ![p] =
                  IF pr.err = "none"
                  THEN [NoLoc EXCEPT !.nav = pr.nav, !.units_delta = pr.units_delta]
                  ELSE NoLoc]
    /\ result' = [result EXCEPT ![p] =
                     IF pr.err = "none" THEN NoResult ELSE Raised(pr.err)]
    /\ UNCHANGED <<flows, positions, navs, locks, call, fundState>>

\* capital_flows.py lines 119-124 and the end of the atomic block of
\* admin.py line 126: the ledger row, the position and the inception
\* snapshot are committed together.
AdmSave(p) ==
    /\ pc[p] = "save"
    /\ flows' = flows \cup {loc[p].flow}
    /\ positions' = PutAcct(positions, call[p],
                            SavedAcct(loc[p].acct, loc[p].nav, loc[p].units_delta))
    /\ navs' = VisibleNavs(p)
    /\ adm' = [adm EXCEPT ![p].nav = FALSE]
    /\ locks' = Unlocked(p)
    /\ pc' = [pc EXCEPT ![p] = "done"]
    /\ result' = [result EXCEPT ![p] = Returned("created", loc[p].flow)]
    /\ loc' = [loc EXCEPT ![p] = NoLoc]
    /\ UNCHANGED <<call, months, last, feeState, navState, mailState>>

\* admin.py lines 177-184, or the exception leaving save_model: a save that
\* got the row of a replay commits what it wrote, one that raised discards
\* it.
AdmReturn(p) ==
    /\ pc[p] = "done"
    /\ navs' = IF result[p].kind = "existing" THEN VisibleNavs(p) ELSE navs
    /\ adm' = [adm EXCEPT ![p] = NoAdm]
    /\ pc' = [pc EXCEPT ![p] = "idle"]
    /\ call' = [call EXCEPT ![p] = NoCall]
    /\ result' = [result EXCEPT ![p] = NoResult]
    /\ UNCHANGED <<flows, positions, locks, loc, months, last, feeState, navState, mailState>>

NextAdminOverlap ==
    \/ \E p \in Procs, obj \in AdmFlowInputs : AdminBegin(p, obj)
    \/ \E p \in Procs : AdminInception(p)
    \/ \E p \in Procs : AdminPickRef(p)
    \/ \E p \in Procs : Check(p)
    \/ \E p \in Procs : AdmPrice(p)
    \/ \E p \in Procs : Lock(p)
    \/ \E p \in Procs : Create(p)
    \/ \E p \in Procs : AdmSave(p)
    \/ \E p \in Procs : AdmReturn(p)

SpecAdminOverlap == Init /\ [][NextAdminOverlap]_vars

\* ------------- compute_and_save_navsnapshot, statement by statement
\* One run of the NAV computation beside the commits of apply_capital_flow.
\* The run reads the unit total outside any transaction (nav.py lines
\* 40-42), calls the broker, and opens its transaction only for the write
\* (lines 60-70).
NavRunBrokerInputs ==
    {[ok |-> FALSE, equity |-> 0, cash |-> 0],
     [ok |-> TRUE, equity |-> 1050000, cash |-> 250004]}

\* nav.py lines 30-48: the fund checks and the read of the unit total.
NavRead(fund, as_of) ==
    LET total_units == TotalUnits(positions, fund)
        kind == IF FundTable[fund].custodian # "ALPACA" THEN "not_alpaca"
                ELSE IF FundTable[fund].status # "ACTIVE" THEN "not_active"
                ELSE IF TotalUnitsRefused(total_units) THEN "total_units_not_positive"
                ELSE "none"
    IN  /\ navrun.pc = "idle"
        /\ <<fund, as_of>> \in DOMAIN navs \/ Cardinality(DOMAIN navs) < MaxSnapshots
        /\ navrun' = [pc |-> IF kind = "none" THEN "valuing" ELSE "done",
                      fund |-> fund, as_of |-> as_of,
                      total_units |-> total_units, kind |-> kind]
        /\ UNCHANGED <<flows, positions, navs, months, last, ledgerCallers,
                       feeState, adminState, mailState>>

\* nav.py lines 50-71: the broker answers and the snapshot is written with
\* the unit total read at lines 40-42.
NavWrite(b) ==
    /\ navrun.pc = "valuing"
    /\ navs' = IF b.ok
               THEN UpsertNav(navs, navrun.fund, navrun.as_of,
                              NavFields(navrun.total_units, b))
               ELSE navs
    /\ navrun' = [navrun EXCEPT !.pc = "done",
                                !.kind = IF b.ok THEN "saved" ELSE "broker_error"]
    /\ UNCHANGED <<flows, positions, months, last, ledgerCallers, feeState, adminState, mailState>>

\* The caller takes the snapshot or the exception.
NavReturn ==
    /\ navrun.pc = "done"
    /\ navrun' = NoNavRun
    /\ UNCHANGED <<flows, positions, navs, months, last, ledgerCallers,
                   feeState, adminState, mailState>>

NextNavOverlap ==
    \/ \E a \in RollupCallInputs : ApplyCapitalFlowDec(a)
    \/ AdminAddNAVSnapshotDec("f1", 1, DecAt(1, 0, UNITS_DIGITS))
    \/ \E f \in Funds, d \in NavDates : NavRead(f, d)
    \/ \E b \in NavRunBrokerInputs : NavWrite(b)
    \/ NavReturn

SpecNavOverlap == Init /\ [][NextNavOverlap]_vars

\* ===================================== report e-mail delivery, SpecMail
\* clients/models.py: the status values of Client.
ACTIVE == "active"
PROSPECT == "prospect"

\* A null column and a missing argument.
None == "None"

\* The clients of the mailing.  Client.email is one text column that may
\* hold several addresses separated by commas or semicolons; it is given here
\* as the parts raw.replace(";", ",").split(",") yields, each already
\* stripped, with what validate_email says of it.
MailClients == {"c1", "c2", "c3"}

EmailPart(text, valid) == [text |-> text, valid |-> valid]

ClientTable ==
    [c \in MailClients |->
        CASE c = "c1" ->
               [status |-> ACTIVE,
                email |-> <<EmailPart("ann@x.com", TRUE), EmailPart("", FALSE),
                            EmailPart("Ann@X.com", TRUE),
                            EmailPart("ann.home@x.com", TRUE),
                            EmailPart("ann at x", FALSE)>>]
          [] c = "c2" ->
               [status |-> PROSPECT, email |-> <<EmailPart("bob@x.com", TRUE)>>]
          [] OTHER ->
               [status |-> ACTIVE, email |-> None]]

\* str.lower() on the addresses of the table.
Lower(text) ==
    CASE text = "Ann@X.com" -> "ann@x.com"
      [] OTHER -> text

\* tasks.py lines 85-115: empty and invalid parts are dropped, and of the
\* parts equal in lower case the first is kept.
RECURSIVE SplitFrom(_, _, _, _)
SplitFrom(parts, i, seen, out) ==
    IF i > Len(parts) THEN out
    ELSE LET p == parts[i] IN
         IF p.text = "" \/ ~p.valid \/ Lower(p.text) \in seen
         THEN SplitFrom(parts, i + 1, seen, out)
         ELSE SplitFrom(parts, i + 1, seen \cup {Lower(p.text)}, Append(out, p.text))

split_emails(raw) ==
    IF raw = None \/ raw = <<>> THEN <<>> ELSE SplitFrom(raw, 1, {}, <<>>)

\* tasks.py lines 123-131: the clients with an e-mail column that is neither
\* null nor empty and an account of the fund with units > 0.
RecipientClients(ps, fund_id) ==
    {c \in MailClients :
        /\ ClientTable[c].email # None
        /\ ClientTable[c].email # <<>>
        /\ <<c, fund_id>> \in DOMAIN ps
        /\ DecIsPos(ps[<<c, fund_id>>].units)}

\* tasks.py lines 118-139: the list of (client, email) tuples.
get_recipients_for_fund(ps, fund_id) ==
    UNION {{<<c, split_emails(ClientTable[c].email)[i]>> :
                i \in 1..Len(split_emails(ClientTable[c].email))} :
           c \in RecipientClients(ps, fund_id)}

\* getattr(obj, name, default) where obj is a tuple: a tuple has neither a
\* status nor an email attribute, so the default comes back.
TupleGetattr(tuple, name, default) == default

\* tasks.py lines 242-247: the filter of include_only_active_clients, applied
\* to the tuples of the list.
ActiveRecipients(recipients) ==
    {r \in recipients : TupleGetattr(r, "status", None) = ACTIVE}

\* tasks.py line 292: (getattr(client, "email", None) or "").strip(), applied
\* to a tuple of the list.
LoopEmail(r) ==
    IF TupleGetattr(r, "email", None) = None THEN ""
    ELSE TupleGetattr(r, "email", None)

\* tasks.py lines 74-82: the latest snapshot of the fund that has an artifact.
LatestSnapshotWithReport(ms, reps, fund_id) ==
    LET S == {k \in DOMAIN ms \cap DOMAIN reps : k[1] = fund_id} IN
    IF S = {} THEN None
    ELSE CHOOSE k \in S : \A j \in S : j[2] <= k[2]

\* EmailSendResult, with the messages handed to the mail backend.
EmailSendResult(kind, sent, skipped_no_email, skipped_no_report, snap, messages) ==
    [kind |-> kind, sent |-> sent, skipped_no_email |-> skipped_no_email,
     skipped_not_invested |-> 0, skipped_no_report |-> skipped_no_report,
     snapshot_id |-> snap, messages |-> messages]

\* tasks.py lines 191-226: the snapshot asked for, or the latest with a
\* report; None when the task returns before it has one.
PickSnapshot(ms, reps, a) ==
    IF a.snapshot_id # None
    THEN IF a.snapshot_id \in DOMAIN ms /\ a.snapshot_id[1] = a.fund_id
            /\ a.snapshot_id \in DOMAIN reps
         THEN a.snapshot_id ELSE None
    ELSE LatestSnapshotWithReport(ms, reps, a.fund_id)

\* tasks.py lines 173-317, the settings holding DEFAULT_FROM_EMAIL.
RunEmail(ms, reps, ps, a) ==
    LET snap == PickSnapshot(ms, reps, a)
        all == get_recipients_for_fund(ps, a.fund_id)
        recipients == IF a.include_only_active_clients
                      THEN ActiveRecipients(all) ELSE all
        no_email == {r \in recipients : LoopEmail(r) = ""}
        mailed == IF a.dry_run THEN {} ELSE recipients \ no_email
    IN  IF snap = None
        THEN EmailSendResult("no_report", 0, 0, 1, a.snapshot_id, {})
        ELSE IF reps[snap].pdf_file = None
        THEN EmailSendResult("no_report", 0, 0, 1, snap, {})
        ELSE IF recipients = {}
        THEN EmailSendResult("no_recipients", 0, 0, 0, snap, {})
        ELSE IF reps[snap].pdf_file = "empty"
        THEN EmailSendResult("pdf_empty", 0, 0, 0, snap, {})
        ELSE EmailSendResult("done", Cardinality(mailed), Cardinality(no_email), 0,
                             snap, {[client |-> r[1], to |-> LoopEmail(r)] : r \in mailed})

\* The flows of the mailing: subscriptions of each client and a redemption
\* that takes the units of c1 back to zero.
MailCallInputs ==
    [client : MailClients, fund : {"f1"}, flow_type : {TYPE_SUBSCRIPTION},
     flow_date : {1}, amount : {1000000}, external_ref : {"R1"},
     pricing_policy : {"PREV"}, allow_over_redeem : {FALSE}]
    \cup
    [client : {"c1"}, fund : {"f1"}, flow_type : {TYPE_REDEMPTION},
     flow_date : {1}, amount : {1000000}, external_ref : {"R2"},
     pricing_policy : {"PREV"}, allow_over_redeem : {FALSE}]

\* Month ends of January and February 2024.
MailMonths == {31, 60}

MailArgs ==
    [fund_id : {"f1"}, snapshot_id : {None} \cup ({"f1"} \X MailMonths),
     include_only_active_clients : BOOLEAN, dry_run : BOOLEAN]

mailBystanders == <<flows, positions, navs, ledgerCallers, feeState, adminState, navState>>

\* MonthlySnapshotAdmin: a row typed in by hand; unique (fund, as_of_month).
AdminAddMonthlySnapshot(fund, as_of_month) ==
    /\ <<fund, as_of_month>> \notin DOMAIN months
    /\ months' = UpsertMonth(months, fund, as_of_month,
                    MonthFields(DecAt(1, 0, UNITS_DIGITS), DecAt(1, 5000000, UNITS_DIGITS),
                                TotalUnits(positions, fund), [ok |-> FALSE, close |-> <<>>],
                                RollupArgs(fund, <<2024, 1>>)))
    /\ last' = [op |-> "add_monthlysnapshot", fund |-> fund, as_of_month |-> as_of_month]
    /\ UNCHANGED <<mailBystanders, reports>>

\* MonthlyReportArtifactInline and generate_monthly_report_artifact_task: the
\* one artifact of a snapshot is created or replaced, with or without a PDF.
SaveArtifact(snap, pdf_file) ==
    /\ snap \in DOMAIN months
    /\ reports' = [k \in DOMAIN reports \cup {snap} |->
                      IF k = snap THEN [pdf_file |-> pdf_file] ELSE reports[k]]
    /\ last' = [op |-> "save_artifact", snapshot_id |-> snap]
    /\ UNCHANGED <<mailBystanders, months>>

EmailLatestMonthlyReport(a) ==
    /\ last' = [op |-> "email", args |-> a,
                result |-> RunEmail(months, reports, positions, a)]
    /\ UNCHANGED <<mailBystanders, months, reports>>

NextMail ==
    \/ \E a \in MailCallInputs : ApplyCapitalFlowDec(a)
    \/ AdminAddNAVSnapshotDec("f1", 1, DecAt(1, 0, UNITS_DIGITS))
    \/ \E m \in MailMonths : AdminAddMonthlySnapshot("f1", m)
    \/ \E snap \in {"f1"} \X MailMonths, pdf_file \in {None, "bytes"} :
          SaveArtifact(snap, pdf_file)
    \/ \E a \in MailArgs : EmailLatestMonthlyReport(a)

SpecMail == Init /\ [][NextMail]_vars

\* ================================================================= claims
\* Helpers of the claims, stated on the tables alone.
KeyRows(fl, c) ==
    {r \in fl : r.fund = c.fund /\ r.client = c.client
                /\ r.external_ref = c.external_ref}
PairRows(fl, k) == {r \in fl : <<r.client, r.fund>> = k}
PairOf(c) == <<c.client, c.fund>>
UnitsOf(ps, k) == IF k \in DOMAIN ps THEN ps[k].units ELSE 0

\* A whole call by p happens in this step (Spec).
Ran(p) == pc[p] = "idle" /\ pc'[p] = "done"
\* The call passes validation: a key is given and the amount, in thousandths
\* of a dollar, is at least half a cent.
WellFormed(c) == c.external_ref # "" /\ c.amount >= 5
NothingWritten == flows' = flows /\ positions' = positions /\ navs' = navs

\* C1 (SpecOverlap): in every committed state, for every (client, fund) pair,
\* the Position's units equal the sum of units_delta over the pair's
\* CapitalFlow rows, and a pair with ledger rows has a Position row.
C1_UnitConservation ==
    \A k \in Pairs :
        /\ PairRows(flows, k) # {} => k \in DOMAIN positions
        /\ k \in DOMAIN positions => positions[k].units = SumUnits(PairRows(flows, k))

\* Two overlapping redemptions on a pair with two committed rows: one
\* committed, the other failed.
C1_Witness ==
    \E k \in Pairs, p \in Procs, q \in Procs :
        /\ Cardinality(PairRows(flows, k)) >= 2
        /\ pc[p] = "done" /\ result[p].kind = "created"
        /\ result[p].flow.flow_type = TYPE_REDEMPTION /\ PairOf(call[p]) = k
        /\ pc[q] = "done" /\ result[q].kind = "redemption_exceeds_units"
        /\ PairOf(call[q]) = k

\* C2 (Spec): a call made when a row with its (fund, client, external_ref)
\* exists leaves exactly one row for that key and leaves every Position row
\* (units, nav_per_unit, last_valuation_date) as it was.
C2_SequentialIdempotency ==
    [][\A p \in Procs :
        (Ran(p) /\ KeyRows(flows, call'[p]) # {})
        => /\ Cardinality(KeyRows(flows', call'[p])) = 1
           /\ positions' = positions]_vars

\* A second call with the key of a committed row has returned, with another
\* row in the ledger.
C2_Witness ==
    \E p \in Procs :
        /\ pc[p] = "done" /\ result[p].kind = "existing"
        /\ PairOf(call[p]) \in DOMAIN positions
        /\ Cardinality(flows) = 2

\* C3 (SpecOverlap): every step that changes the ledger or a balance commits
\* exactly one row, whose key no committed row had, and moves the balance of
\* its pair by exactly that row's units_delta; so overlapping calls with one
\* key commit at most one row and one units_delta.
C3_AtMostOnceUnderOverlap ==
    [][(flows' # flows \/ \E k \in Pairs : UnitsOf(positions', k) # UnitsOf(positions, k))
       => \E r \in flows' \ flows :
            /\ flows' = flows \cup {r}
            /\ KeyRows(flows, r) = {}
            /\ \A k \in Pairs :
                 UnitsOf(positions', k) =
                     UnitsOf(positions, k) + (IF k = PairOf(r) THEN r.units_delta ELSE 0)]_vars

\* Two calls with one key both passed the existence check; one committed and
\* the other was refused by the unique constraint.
C3_Witness ==
    \E p \in Procs, q \in Procs :
        /\ pc[p] = "done" /\ result[p].kind = "integrity_error"
        /\ pc[q] = "done" /\ result[q].kind = "created"
        /\ KeyRows(flows, call[p]) = {result[q].flow}
        /\ PairRows(flows, PairOf(call[p])) = {result[q].flow}
        /\ UnitsOf(positions, PairOf(call[p])) = result[q].flow.units_delta

\* C4 (SpecOverlap): while a call is between its read of the Position row and
\* its commit, no other call on the pair is, the committed balance is still
\* the one it read, and what it is about to commit leaves the balance >= 0.
C4_SamePairSerialized ==
    \A p \in Procs :
        pc[p] \in {"create", "save"}
        => /\ UnitsOf(positions, PairOf(call[p])) = loc[p].acct.units
           /\ \A q \in Procs \ {p} :
                PairOf(call[q]) = PairOf(call[p]) => pc[q] \notin {"create", "save"}
           /\ pc[p] = "save"
                => UnitsOf(positions, PairOf(call[p])) + loc[p].units_delta >= 0

\* Two redemptions with different keys overlap on a pair whose balance covers
\* only one of them: one holds the row, the other waits for it.
C4_Witness ==
    \E p \in Procs, q \in Procs :
        /\ pc[p] = "save" /\ pc[q] = "lock"
        /\ PairOf(call[p]) = PairOf(call[q])
        /\ call[p].external_ref # call[q].external_ref
        /\ call[p].flow_type = TYPE_REDEMPTION /\ call[q].flow_type = TYPE_REDEMPTION
        /\ UnitsOf(positions, PairOf(call[p])) > 0
        /\ UnitsOf(positions, PairOf(call[p]))
             + loc[p].units_delta + loc[q].units_delta < 0

\* C5 (Spec): a new REDEMPTION with allow_over_redeem = false whose units
\* exceed the pair's balance (0 without a Position row) raises the
\* redemption error and leaves ledger and positions as they were.
C5_RedemptionGuard ==
    [][\A p \in Procs :
        (/\ Ran(p)
         /\ WellFormed(call'[p])
         /\ KeyRows(flows, call'[p]) = {}
         /\ call'[p].flow_type = TYPE_REDEMPTION
         /\ ~call'[p].allow_over_redeem
         /\ PriceFlow(navs, Quantized(call'[p])).err = "none"
         /\ -PriceFlow(navs, Quantized(call'[p])).units_delta
              > UnitsOf(positions, PairOf(call'[p])))
        => /\ result'[p].kind = "redemption_exceeds_units"
           /\ NothingWritten]_vars

\* A redemption on a pair without a Position row was refused, and the pair
\* still has no row.
C5_Witness ==
    \E p \in Procs :
        /\ pc[p] = "done" /\ result[p].kind = "redemption_exceeds_units"
        /\ PairOf(call[p]) \notin DOMAIN positions
        /\ flows # {}

\* C6 (SpecOverlap, whose calls all pass allow_over_redeem = false): every
\* Position has units >= 0.
C6_NonNegativeBalance ==
    \A k \in DOMAIN positions : positions[k].units >= 0

\* A balance redeemed down to zero, and a further redemption refused.
C6_Witness ==
    \E p \in Procs :
        /\ pc[p] = "done" /\ result[p].kind = "redemption_exceeds_units"
        /\ PairOf(call[p]) \in DOMAIN positions
        /\ positions[PairOf(call[p])].units = 0
        /\ \E r \in PairRows(flows, PairOf(call[p])) : r.flow_type = TYPE_REDEMPTION

C8_InputValidation ==
    [][\A p \in Procs :
        (Ran(p) /\ (call'[p].amount < 5 \/ call'[p].external_ref = ""))
        => /\ result'[p].kind \in {"external_ref_required", "amount_not_positive"}
           /\ result'[p].flow = NoFlow
           /\ NothingWritten]_vars

\* An amount of 0.004, positive before rounding, was refused on a key that
\* has a committed row.
C8_Witness ==
    \E p \in Procs :
        /\ pc[p] = "done" /\ result[p].kind = "amount_not_positive"
        /\ call[p].amount = 4
        /\ KeyRows(flows, call[p]) # {}

\* C9 (Spec): under PREV a new flow is priced at the fund's snapshot with the
\* greatest date <= flow_date, and fails with the no-snapshot error, writing
\* nothing, exactly when the fund has no snapshot dated <= flow_date.
C9_PrevPricing ==
    [][\A p \in Procs :
        (/\ Ran(p)
         /\ WellFormed(call'[p])
         /\ KeyRows(flows, call'[p]) = {}
         /\ call'[p].pricing_policy = "PREV")
        => LET c == call'[p]
               S == {d \in Dates : <<c.fund, d>> \in DOMAIN navs /\ d <= c.flow_date}
           IN  /\ S = {} => (result'[p].kind = "no_nav" /\ NothingWritten)
               /\ S # {} => result'[p].kind # "no_nav"
               /\ result'[p].kind = "created"
                  => \E d \in S :
                       /\ \A e \in S : e <= d
                       /\ result'[p].flow.nav_at_flow = navs[<<c.fund, d>>].nav_per_unit
                       /\ positions'[PairOf(c)].last_valuation_date = d]_vars

\* A PREV flow dated 1 was priced at the snapshot of day 1 although the fund
\* has a later snapshot with another price.
C9_Witness ==
    \E p \in Procs :
        /\ pc[p] = "done" /\ result[p].kind = "created"
        /\ call[p].pricing_policy = "PREV" /\ call[p].flow_date = 1
        /\ <<call[p].fund, 1>> \in DOMAIN navs /\ <<call[p].fund, 2>> \in DOMAIN navs
        /\ navs[<<call[p].fund, 1>>] # navs[<<call[p].fund, 2>>]
        /\ result[p].flow.nav_at_flow = navs[<<call[p].fund, 1>>].nav_per_unit

\* C10 (Spec): under EXACT a new flow is created only if the fund has a
\* snapshot dated flow_date, and is priced at it; without one it fails with
\* the no-snapshot error and writes nothing.
C10_ExactPricing ==
    [][\A p \in Procs :
        (/\ Ran(p)
         /\ WellFormed(call'[p])
         /\ KeyRows(flows, call'[p]) = {}
         /\ call'[p].pricing_policy = "EXACT")
        => LET c == call'[p]
               has == <<c.fund, c.flow_date>> \in DOMAIN navs
           IN  /\ ~has => (result'[p].kind = "no_nav" /\ NothingWritten)
               /\ has => result'[p].kind # "no_nav"
               /\ result'[p].kind = "created"
                  => /\ has
                     /\ result'[p].flow.nav_at_flow
                          = navs[<<c.fund, c.flow_date>>].nav_per_unit
                     /\ positions'[PairOf(c)].last_valuation_date = c.flow_date]_vars

\* An EXACT flow dated 2 failed although the fund has a snapshot of day 1.
C10_Witness ==
    \E p \in Procs :
        /\ pc[p] = "done" /\ result[p].kind = "no_nav"
        /\ call[p].pricing_policy = "EXACT" /\ call[p].flow_date = 2
        /\ <<call[p].fund, 1>> \in DOMAIN navs
        /\ <<call[p].fund, 2>> \notin DOMAIN navs

\* ------------------------------------------------------ claims on SpecFund
\* C11 (SpecFund): every CapitalFlow row has units_delta > 0 when it is a
\* SUBSCRIPTION and units_delta < 0 when it is a REDEMPTION.
C11_SignOfUnitsDelta ==
    \A r \in flows :
        /\ r.flow_type = TYPE_SUBSCRIPTION => DecIsPos(r.units_delta)
        /\ r.flow_type = TYPE_REDEMPTION => DecIsNeg(r.units_delta)

\* C12 (SpecFund): a flow of 100.00 priced at 33.33333333 has units of
\* exactly 3.00000000 (units_delta +3.00000000 for a subscription), and two
\* rows with equal amount and price have equal units.
C12_RoundingExample ==
    /\ \A r \in flows :
         (r.amount = 10000 /\ r.nav_at_flow = DecAt(33, 33333333, UNITS_DIGITS))
         => /\ r.units_delta.mag = DecAt(3, 0, UNITS_DIGITS).mag
            /\ r.flow_type = TYPE_SUBSCRIPTION
                 => r.units_delta = DecAt(3, 0, UNITS_DIGITS)
    /\ \A r \in flows, t \in flows :
         (r.amount = t.amount /\ r.nav_at_flow = t.nav_at_flow)
         => r.units_delta.mag = t.units_delta.mag

\* A subscription of 100.00 at 33.33333333 and a second flow of the same
\* amount at the same price are in the ledger.
C12_Witness ==
    \E r \in flows, t \in flows :
        /\ r # t
        /\ r.flow_type = TYPE_SUBSCRIPTION
        /\ r.amount = 10000 /\ t.amount = 10000
        /\ r.nav_at_flow = DecAt(33, 33333333, UNITS_DIGITS)
        /\ t.nav_at_flow = DecAt(33, 33333333, UNITS_DIGITS)

\* C12 as the spec words it: the units of that subscription are 3.00000090.
C12_UnitsAsStated ==
    \A r \in flows :
        (/\ r.flow_type = TYPE_SUBSCRIPTION
         /\ r.amount = 10000
         /\ r.nav_at_flow = DecAt(33, 33333333, UNITS_DIGITS))
        => r.units_delta = DecAt(3, 90, UNITS_DIGITS)

\* C13 (SpecFund): no step removes or alters a CapitalFlow row, and a save
\* of the admin with change = True fails as immutable and leaves ledger,
\* positions and NAV snapshots as they were.
C13_LedgerImmutable ==
    [][/\ \A r \in flows : r \in flows'
       /\ (last'.op = "save_model" /\ last'.change)
          => /\ last'.kind = "immutable"
             /\ flows' = flows /\ positions' = positions /\ navs' = navs]_vars

\* The admin saved an edit of a row of a pair that has rows: it was refused.
C13_Witness ==
    /\ last.op = "save_model" /\ last.change /\ last.kind = "immutable"
    /\ \E r \in flows : r.client = last.obj.client /\ r.fund = last.obj.fund
                        /\ r.amount # last.obj.amount \div 10

\* Helpers of the claims on the NAV computation.
\* The sum of Position.units over the fund.
FundUnits(ps, fund) ==
    DecSum([k \in Pairs |-> IF k \in DOMAIN ps THEN ps[k].units ELSE DecZero],
           {k \in Pairs : k[2] = fund})
\* compute_and_save_navsnapshot runs in this step on a fund it supports.
NavRan ==
    /\ last'.op = "compute_nav"
    /\ FundTable[last'.fund].custodian = "ALPACA"
    /\ FundTable[last'.fund].status = "ACTIVE"
\* n is x / t rounded half up to the scale of n, x given at `shift` fewer
\* digits: |x| * 10^shift is within half a unit of |n| * |t|, the upper
\* half excluded.
IsHalfUpQuotient(n, x, t, shift) ==
    LET twice == NatAdd(NatShift(x.mag, shift), NatShift(x.mag, shift))
        prod == NatMul(n.mag, t.mag)
    IN  /\ NatCmp(NatAdd(prod, prod), NatAdd(twice, t.mag)) <= 0
        /\ NatCmp(NatAdd(twice, t.mag), NatAdd(NatAdd(prod, prod), NatAdd(t.mag, t.mag))) < 0
        /\ n.mag # <<>> => n.neg = (x.neg # t.neg)

\* C14 (SpecFund): a NAV computation for a supported fund whose positions
\* sum to 0 units fails with the total-units error, without a broker call,
\* and leaves every NAVSnapshot as it was.
C14_NavPrecondition ==
    [][(NavRan /\ FundUnits(positions, last'.fund) = DecZero)
       => /\ last'.kind = "total_units_not_positive"
          /\ last'.broker_calls = 0
          /\ navs' = navs]_vars

\* The computation was refused for a fund whose position was redeemed down
\* to 0 units, with a snapshot of that fund on file.
C14_Witness ==
    /\ last.op = "compute_nav" /\ last.kind = "total_units_not_positive"
    /\ \E k \in DOMAIN positions : k[2] = last.fund /\ positions[k].units = DecZero
    /\ \E r \in flows : r.fund = last.fund /\ r.flow_type = TYPE_REDEMPTION
    /\ \E k \in DOMAIN navs : k[1] = last.fund

\* C15 (SpecFund): every stored NAVSnapshot with total_units > 0 has
\* nav_per_unit > 0.
C15_NavPositive ==
    \A k \in DOMAIN navs :
        DecIsPos(navs[k].total_units) => DecIsPos(navs[k].nav_per_unit)

\* C16 (SpecFund): a successful NAV computation leaves one row for its
\* (fund, date) holding what this run computed: total_units the sum of the
\* fund's positions, aum and cash_balance the broker's figures rounded to
\* cents, nav_per_unit = aum / total_units rounded half up to 8 decimals;
\* every other snapshot is as it was.
C16_NavUpsert ==
    [][(NavRan /\ last'.kind = "saved")
       => LET key == <<last'.fund, last'.as_of>> IN
          /\ DOMAIN navs' = DOMAIN navs \cup {key}
          /\ \A k \in DOMAIN navs : k # key => navs'[k] = navs[k]
          /\ navs'[key].total_units = FundUnits(positions, last'.fund)
          /\ navs'[key].aum = DecOfInt(QuantizeHalfUp10(last'.broker.equity))
          /\ navs'[key].cash_balance = DecOfInt(QuantizeHalfUp10(last'.broker.cash))
          /\ IsHalfUpQuotient(navs'[key].nav_per_unit, navs'[key].aum,
                              navs'[key].total_units,
                              UNITS_DIGITS + UNITS_DIGITS - USD_DIGITS)]_vars

\* A second run for a (fund, date) replaced the row of the first, of another
\* equity, while the fund's snapshot of another date stayed.
C16_Witness ==
    /\ last.op = "compute_nav" /\ last.kind = "saved" /\ ~last.created
    /\ last.broker.equity = 2100005
    /\ navs[<<last.fund, last.as_of>>].aum = DecOfInt(210001)
    /\ navs[<<last.fund, last.as_of>>].nav_per_unit = DecAt(2, 10001000, UNITS_DIGITS)
    /\ \E k \in DOMAIN navs : k[1] = last.fund /\ k[2] # last.as_of

\* C17 (SpecFund): when the fund is supported and has units, and the broker
\* valuation call fails, the run fails with the broker's error after that one
\* call and leaves every NAVSnapshot as it was.
C17_BrokerFailure ==
    [][(NavRan /\ DecIsPos(FundUnits(positions, last'.fund)) /\ ~last'.broker.ok)
       => /\ last'.kind = "broker_error"
          /\ last'.broker_calls = 1
          /\ navs' = navs]_vars

\* The broker failed on a re-run for a (fund, date) that has a snapshot.
C17_Witness ==
    /\ last.op = "compute_nav" /\ last.kind = "broker_error" /\ ~last.created
    /\ DecIsPos(navs[<<last.fund, last.as_of>>].total_units)

\* ---------------------------------------------------- claims on SpecRollup
\* Helpers of the claims on the rollup, stated on the tables alone.
RollupRan == last'.op = "rollup"
FirstDay(a) == DayNumber(a.year, a.month, 1)
LastDay(a) == DayNumber(a.year, a.month, DaysInMonth(a.year, a.month))
DatesUpTo(ns, fund, d) == {k[2] : k \in {x \in DOMAIN ns : x[1] = fund /\ x[2] <= d}}
IsLatestUpTo(ns, fund, d, e) ==
    e \in DatesUpTo(ns, fund, d) /\ \A x \in DatesUpTo(ns, fund, d) : x <= e
NoBenchmark(bench) == ~bench.ok \/ bench.close = <<>>

\* C18 (SpecRollup): with both NAV boundaries on file (the opening one
\* positive), a rollup whose benchmark fetch raises or returns an empty
\* series ends without an exception and the MonthlySnapshot of (fund,
\* month end) is stored with benchmark_return and excess_return null.
C18_RollupDegradesGracefully ==
    [][(/\ RollupRan
        /\ NoBenchmark(last'.bench)
        /\ \E e \in DatesUpTo(navs, last'.args.fund, FirstDay(last'.args)) :
              /\ IsLatestUpTo(navs, last'.args.fund, FirstDay(last'.args), e)
              /\ DecIsPos(navs[<<last'.args.fund, e>>].nav_per_unit))
       => /\ last'.kind = "saved"
          /\ <<last'.args.fund, LastDay(last'.args)>> \in DOMAIN months'
          /\ IsNull(months'[<<last'.args.fund, LastDay(last'.args)>>].benchmark_return)
          /\ IsNull(months'[<<last'.args.fund, LastDay(last'.args)>>].excess_return)]_vars

\* C19 (SpecRollup): a rollup for a fund without a snapshot dated on or
\* before the first day of the month fails with the missing-boundaries error
\* and leaves every MonthlySnapshot as it was; otherwise its nav_bom is the
\* NAV of the fund's latest snapshot dated <= the first day and its nav_eom
\* that of the latest dated <= the last day, and so are those of the row it
\* stores.
C19_RollupDataGap ==
    [][RollupRan
       => LET a == last'.args
              key == <<a.fund, LastDay(a)>>
          IN  /\ DatesUpTo(navs, a.fund, FirstDay(a)) = {}
                 => /\ last'.kind = "missing_nav_boundaries"
                    /\ months' = months
              /\ DatesUpTo(navs, a.fund, FirstDay(a)) # {}
                 => /\ last'.kind # "missing_nav_boundaries"
                    /\ IsLatestUpTo(navs, a.fund, FirstDay(a), last'.nav_bom.date)
                    /\ IsLatestUpTo(navs, a.fund, LastDay(a), last'.nav_eom.date)
                    /\ last'.nav_bom.nav_per_unit
                         = navs[<<a.fund, last'.nav_bom.date>>].nav_per_unit
                    /\ last'.nav_eom.nav_per_unit
                         = navs[<<a.fund, last'.nav_eom.date>>].nav_per_unit
                    /\ last'.kind = "saved"
                       => /\ months'[key].nav_bom = last'.nav_bom.nav_per_unit
                          /\ months'[key].nav_eom = last'.nav_eom.nav_per_unit]_vars

\* The rollup of January failed for a fund whose only snapshot is dated the
\* last day of the month, with a usable benchmark.
C19_Witness ==
    /\ last.op = "rollup" /\ last.kind = "missing_nav_boundaries"
    /\ last.args.year = 2024 /\ last.args.month = 1
    /\ Len(last.bench.close) >= 2
    /\ DOMAIN navs = {<<last.args.fund, 31>>}

\* C20 (SpecRollup): with the snapshot of 2024-01-01 at 1.00000000, a new
\* subscription of 1000.00 on that day with ref R1 creates a row with
\* units_delta 1000.00000000 and a Position of 1000 units; with the snapshot
\* of 2024-01-31 at 1.05000000 recorded as well, the rollup of January 2024
\* stores fund_return 0.05 and aum_eom 1050.00.
C20_Scenario ==
    [][/\ (/\ last'.op = "apply_capital_flow"
           /\ <<"f1", 1>> \in DOMAIN navs
           /\ navs[<<"f1", 1>>].nav_per_unit = DecAt(1, 0, UNITS_DIGITS)
           /\ flows = {}
           /\ last'.args.flow_type = TYPE_SUBSCRIPTION
           /\ last'.args.amount = 1000000 /\ last'.args.external_ref = "R1")
          => /\ last'.kind = "created"
             /\ last'.flow.units_delta = DecAt(1000, 0, UNITS_DIGITS)
             /\ flows' = {last'.flow}
             /\ positions'[<<"c1", "f1">>].units = DecAt(1000, 0, UNITS_DIGITS)
       /\ (/\ RollupRan
           /\ last'.args.year = 2024 /\ last'.args.month = 1
           /\ DOMAIN navs = {<<"f1", 1>>, <<"f1", 31>>}
           /\ navs[<<"f1", 1>>].nav_per_unit = DecAt(1, 0, UNITS_DIGITS)
           /\ navs[<<"f1", 31>>].nav_per_unit = DecAt(1, 5000000, UNITS_DIGITS)
           /\ \E r \in flows :
                /\ flows = {r}
                /\ r.external_ref = "R1" /\ r.flow_type = TYPE_SUBSCRIPTION
                /\ r.units_delta = DecAt(1000, 0, UNITS_DIGITS))
          => /\ <<"f1", 31>> \in DOMAIN months'
             /\ months'[<<"f1", 31>>].fund_return = DecAt(0, 50000, RETURN_DIGITS)
             /\ months'[<<"f1", 31>>].aum_eom = DecAt(1050, 0, USD_DIGITS)]_vars

\* C21 (SpecRollup): a successful rollup leaves one MonthlySnapshot for
\* (fund, last day of the month), holding the figures of this run computed
\* from the snapshots, positions and benchmark as they are now, and every
\* other row as it was; a successful run that follows a successful run of
\* the same arguments and benchmark leaves the table as it is.
C21_RollupUpsert ==
    [][(RollupRan /\ last'.kind = "saved")
       => LET a == last'.args
              key == <<a.fund, LastDay(a)>>
          IN  /\ DOMAIN months' = DOMAIN months \cup {key}
              /\ \A k \in DOMAIN months : k # key => months'[k] = months[k]
              /\ \E b \in DatesUpTo(navs, a.fund, FirstDay(a)),
                    e \in DatesUpTo(navs, a.fund, LastDay(a)) :
                    /\ IsLatestUpTo(navs, a.fund, FirstDay(a), b)
                    /\ IsLatestUpTo(navs, a.fund, LastDay(a), e)
                    /\ months'[key] = MonthFields(navs[<<a.fund, b>>].nav_per_unit,
                                                  navs[<<a.fund, e>>].nav_per_unit,
                                                  FundUnits(positions, a.fund),
                                                  last'.bench, a)
              /\ (/\ last.op = "rollup" /\ last.kind = "saved"
                  /\ last.args = a /\ last.bench = last'.bench)
                 => months' = months]_vars

\* A rollup of January replaced the row of an earlier run: the benchmark fell
\* by 2% in this run, the closing NAV is 1.05 and the fund holds 1000 units.
C21_Witness ==
    /\ last.op = "rollup" /\ last.kind = "saved" /\ ~last.created
    /\ last.bench.close = <<47000, 46060>>
    /\ months[<<"f1", 31>>].benchmark_return = Dec(TRUE, NatOf(20000))
    /\ months[<<"f1", 31>>].fund_return = DecAt(0, 50000, RETURN_DIGITS)
    /\ months[<<"f1", 31>>].excess_return = DecAt(0, 70000, RETURN_DIGITS)
    /\ months[<<"f1", 31>>].aum_eom = DecAt(1050, 0, USD_DIGITS)

\* ------------------------------------------------------ claims on SpecFees
\* Helpers of the claims on the fees, stated on the tables alone.
AccrueRan == last'.op = "accrue"
FeeKey == <<last'.fund, TYPE_MGMT_FEE, last'.as_of>>
HasSnapshotOn(ns, fund, d) == <<fund, d>> \in DOMAIN ns
\* aum * annual_rate / 365 in cents, rounded half up, from the exact product.
ExactDailyFee(aum, annual_rate) ==
    LET den == NatShift(NatOf(DAYS_PER_YEAR), RATE_DIGITS)
    IN  Dec(aum.neg # annual_rate.neg,
            NatHalfUp(NatDivMod(NatTimes(aum.mag, annual_rate.mag), den), den))

\* C22 (SpecFees): an accrual, by the service or by the daily task, whose
\* annual_rate is <= 0 or whose snapshot has AUM < 0 fails and leaves every
\* FundExpense as it was.
C22_FeeInputValidation ==
    [][(/\ AccrueRan
        /\ \/ ~DecIsPos(last'.annual_rate)
           \/ /\ HasSnapshotOn(navs, last'.fund, last'.as_of)
              /\ DecIsNeg(navs[<<last'.fund, last'.as_of>>].aum))
       => /\ last'.kind # "saved"
          /\ expenses' = expenses]_vars

\* C23 (SpecFees): an accrual for a (fund, as_of) without a snapshot dated
\* exactly as_of fails with the missing-snapshot error and leaves every
\* FundExpense as it was, whatever earlier snapshots exist; a successful one
\* stores AUM * annual_rate / 365 of the snapshot of as_of, rounded half up to
\* cents.
C23_FeeAmount ==
    [][AccrueRan
       => /\ ~HasSnapshotOn(navs, last'.fund, last'.as_of)
             => /\ last'.kind = "no_navsnapshot"
                /\ expenses' = expenses
          /\ last'.kind = "saved"
             => /\ HasSnapshotOn(navs, last'.fund, last'.as_of)
                /\ expenses'[FeeKey].amount
                     = ExactDailyFee(navs[<<last'.fund, last'.as_of>>].aum,
                                     last'.annual_rate)]_vars

\* C24 (SpecFees): the FundExpense rows are keyed by (fund, expense_type,
\* as_of_date); mark_paid and mark_unpaid add and remove none; a successful
\* accrual leaves the row of its key unpaid with the amount this run computed
\* and every other row as it was.
C24_FeeUpsert ==
    [][/\ last'.op \in {"mark_paid", "mark_unpaid"}
          => DOMAIN expenses' = DOMAIN expenses
       /\ (AccrueRan /\ last'.kind = "saved")
          => /\ DOMAIN expenses' = DOMAIN expenses \cup {FeeKey}
             /\ \A k \in DOMAIN expenses : k # FeeKey => expenses'[k] = expenses[k]
             /\ ~expenses'[FeeKey].is_paid
             /\ expenses'[FeeKey].amount
                  = DailyFee(navs[<<last'.fund, last'.as_of>>].aum,
                             last'.annual_rate)]_vars

\* The daily task recomputed at 5% a fee that had been marked paid: the row
\* is unpaid, with the new amount of 16 cents on an AUM of 1186.25.
C24_Witness ==
    /\ last.op = "accrue" /\ last.kind = "saved" /\ last.caller = "task"
    /\ ~expenses[<<last.fund, TYPE_MGMT_FEE, last.as_of>>].is_paid
    /\ expenses[<<last.fund, TYPE_MGMT_FEE, last.as_of>>].paid_at # NoTime
    /\ expenses[<<last.fund, TYPE_MGMT_FEE, last.as_of>>].amount = DecOfInt(16)

\* C29 (SpecFees): an unpaid FundExpense has paid_at empty and a paid one
\* has paid_at set.
C29_PaidFlagConsistent ==
    \A k \in DOMAIN expenses :
        expenses[k].is_paid <=> expenses[k].paid_at # NoTime

\* ---------------------------------------------- claims on Spec, continued
\* The dates of the fund's snapshots that may price call c under its policy.
PricingDates(ns, c) ==
    {k[2] : k \in {x \in DOMAIN ns :
                     /\ x[1] = c.fund
                     /\ IF c.pricing_policy = "EXACT" THEN x[2] = c.flow_date
                        ELSE x[2] <= c.flow_date}}

\* C25 (Spec): after a call that created a row, the Position of its pair
\* carries the nav_at_flow of the new row as nav_per_unit and, as
\* last_valuation_date, the date of the snapshot that priced the flow: the
\* latest the policy admits, whatever the flow_date.
C25_PositionValuationFields ==
    [][\A p \in Procs :
        (Ran(p) /\ result'[p].kind = "created")
        => LET c == call'[p]
               row == result'[p].flow
           IN  /\ row \in flows' \ flows
               /\ positions'[PairOf(c)].nav_per_unit = row.nav_at_flow
               /\ \E d \in PricingDates(navs, c) :
                    /\ \A e \in PricingDates(navs, c) : e <= d
                    /\ navs[<<c.fund, d>>].nav_per_unit = row.nav_at_flow
                    /\ positions'[PairOf(c)].last_valuation_date = d]_vars

\* A second flow on a pair, dated 2 and priced under PREV at the snapshot of
\* day 1: the Position carries day 1, not the flow_date, and the price of
\* the new row.
C25_Witness ==
    \E p \in Procs :
        /\ pc[p] = "done" /\ result[p].kind = "created"
        /\ call[p].pricing_policy = "PREV" /\ call[p].flow_date = 2
        /\ positions[PairOf(call[p])].last_valuation_date = 1
        /\ positions[PairOf(call[p])].nav_per_unit = result[p].flow.nav_at_flow
        /\ Cardinality(PairRows(flows, PairOf(call[p]))) = 2

\* C26 (Spec): the last_valuation_date of a Position never moves to an
\* earlier date.
C26_MonotonicValuation ==
    [][\A k \in DOMAIN positions :
        positions'[k].last_valuation_date >= positions[k].last_valuation_date]_vars

\* --------------------------------------------- claims on SpecAdminOverlap
\* C27 (SpecAdminOverlap): the step in which an admin save of a new row gets
\* its result without an error adds exactly one row to the ledger, with an
\* external_ref no row of the (fund, client) had, and adds the row's
\* units_delta to the Position of the pair.
C27_AdminCreateAddsRow ==
    [][\A p \in Procs :
        (/\ pc[p] # "done" /\ pc'[p] = "done"
         /\ result'[p].kind \in {"created", "existing"})
        => \E row \in flows' \ flows :
             /\ flows' = flows \cup {row}
             /\ row.client = adm[p].obj.client /\ row.fund = adm[p].obj.fund
             /\ KeyRows(flows, row) = {}
             /\ UnitsOf(positions', PairOf(row))
                  = UnitsOf(positions, PairOf(row)) + row.units_delta]_vars

\* ----------------------------------------------- claims on SpecNavOverlap
\* C28 (SpecNavOverlap): the total_units of the snapshot a NAV computation
\* commits is the sum of the units of the fund's Positions as committed at
\* that moment.
C28_NavUnitsConsistent ==
    [][(navrun.pc = "valuing" /\ navrun'.pc = "done" /\ navrun'.kind = "saved")
       => navs'[<<navrun.fund, navrun.as_of>>].total_units
            = FundUnits(positions', navrun.fund)]_vars

\* ------------------------------------------------------------------- C30
\* The addresses of a client the claim counts: the valid parts of its e-mail
\* column, taken in lower case so that two spellings of one address count once.
ValidAddresses(c) ==
    IF ClientTable[c].email = None THEN {}
    ELSE {Lower(ClientTable[c].email[i].text) :
            i \in {j \in 1..Len(ClientTable[c].email) : ClientTable[c].email[j].valid}}

InvestedClients(ps, fund_id) ==
    {c \in MailClients : <<c, fund_id>> \in DOMAIN ps /\ DecIsPos(ps[<<c, fund_id>>].units)}

ExpectedMessages(ps, a) ==
    UNION {{<<c, e>> : e \in ValidAddresses(c)} :
           c \in {d \in InvestedClients(ps, a.fund_id) :
                    a.include_only_active_clients => ClientTable[d].status = ACTIVE}}

ChosenHasPdf(ms, reps, a) ==
    LET snap == IF a.snapshot_id # None THEN a.snapshot_id
                ELSE LatestSnapshotWithReport(ms, reps, a.fund_id)
    IN  /\ snap # None
        /\ snap \in DOMAIN ms
        /\ snap \in DOMAIN reps
        /\ reps[snap].pdf_file # None

\* C30: when the chosen snapshot has a report artifact with a PDF and dry_run
\* is false, email_latest_monthly_report_to_clients_task sends exactly one
\* message to each valid address of every client holding units > 0 in the
\* fund (only ACTIVE clients when include_only_active_clients is true) and
\* the sent count it returns is the number of messages sent; when the
\* snapshot or its PDF is missing it sends nothing and returns
\* skipped_no_report = 1.
C30_ReportEmailDelivery ==
    [][last'.op = "email" =>
        LET a == last'.args
            r == last'.result
        IN  /\ (ChosenHasPdf(months', reports', a) /\ ~a.dry_run) =>
                  /\ {<<m.client, Lower(m.to)>> : m \in r.messages}
                        = ExpectedMessages(positions', a)
                  /\ Cardinality(r.messages)
                        = Cardinality(ExpectedMessages(positions', a))
                  /\ r.sent = Cardinality(r.messages)
            /\ ~ChosenHasPdf(months', reports', a) =>
                  r.messages = {} /\ r.skipped_no_report = 1]_vars

====
